---- MODULE Spec2Model ----
(***************************************************************************)
(* Model of the colour-matching core of Photo-Arranger:                    *)
(*   src/src/core/image_processor.py  (ImageProcessor)                     *)
(*   src/src/core/color_matcher.py    (ColorMatcher)                       *)
(*   src/src/core/chart_detector.py   (ChartDetector)                      *)
(*                                                                         *)
(* An image is a record [h, w, cell, px]: it is made of h rows and w       *)
(* columns of square blocks, each block cell x cell pixels of one colour,  *)
(* so its array shape is (h*cell, w*cell, 3); px is the row-major sequence *)
(* of the h*w block colours.  With cell = 1 px is the pixel array itself.  *)
(* A colour is <<blue, green, red>> (OpenCV's BGR order), each channel an  *)
(* integer 0..255 (numpy uint8).  Float arithmetic of the code is carried  *)
(* exactly where it is rational: multiples of 0.5 are kept doubled, other  *)
(* quotients are kept as numerator and denominator.                        *)
(***************************************************************************)
EXTENDS Integers, Sequences, FiniteSets, Bags, TLC

VARIABLES
    source,      \* the caller's source image
    reference,   \* the caller's reference image (NoImage when there is none)
    found,       \* what cv2.findContours returns for source and for reference
    given,       \* the source image as it was handed to the operation
    op,          \* the operation that was called ("none" before the call)
    args,        \* its parameters
    result,      \* what it returned
    shell        \* the window: its two panels and its crop mode (NoShell
                 \* when the core is called on its own)

vars == <<source, reference, found, given, op, args, result, shell>>

(***************************************************************************)
(* Bounds of the model and constants of the program.                       *)
(***************************************************************************)
MaxPixels == 2          \* small images hold at most this many pixels
MaxVal == 255           \* largest uint8 value
SliderMax == 100        \* the sliders run from -100 to +100
MidGray == 128          \* the tests' uniform mid-gray level

None == [none |-> TRUE]          \* Python's None
NoImage == [h |-> 0, w |-> 0, cell |-> 1, px |-> <<>>]
NoShell == [none |-> TRUE]       \* no window
NoContours == [source |-> <<>>, reference |-> <<>>]

Min2(a, b) == IF a < b THEN a ELSE b
Max2(a, b) == IF a > b THEN a ELSE b
Abs(a) == IF a < 0 THEN -a ELSE a

\* np.clip(x, lo, hi)
Clip(x, lo, hi) == Max2(lo, Min2(x, hi))

\* floor of n/d for d > 0 (TLA+'s \div floors)
FloorDiv(n, d) == n \div d

\* truncation toward zero of n/d, d > 0: what int() and astype(uint8) do
TruncDiv(n, d) == IF n >= 0 THEN n \div d ELSE -((-n) \div d)

\* round-half-to-even of n/d, d > 0: cvRound / saturate_cast<int>(double)
RoundDiv(n, d) ==
    LET q == n \div d
        r == n % d
    IN  IF 2 * r < d THEN q
        ELSE IF 2 * r > d THEN q + 1
        ELSE IF q % 2 = 0 THEN q ELSE q + 1

\* ndarray.astype(np.uint8) of the float n/d: the fraction is dropped and the
\* integer is reduced modulo 256
AsUint8(n, d) == TruncDiv(n, d) % (MaxVal + 1)

Shape(image) == <<image.h * image.cell, image.w * image.cell, 3>>

(***************************************************************************)
(* ImageProcessor                                                          *)
(***************************************************************************)

\* value * 0.5 is a multiple of 0.5: channels are kept doubled (x2 = 2*x)
\* through the float32 arithmetic, so c - value*0.5 is (2c - value)/2.
\* mutant: the two channels exchanged (red cooled, blue warmed)
TemperaturePixelSwapped(p, value) ==
    <<AsUint8(Clip(2 * p[1] + value, 0, 2 * MaxVal), 2),
      p[2],
      AsUint8(Clip(2 * p[3] - value, 0, 2 * MaxVal), 2)>>

\* mutant: the float is rounded up instead of having its fraction dropped
TemperaturePixelCeil(p, value) ==
    <<AsUint8(Clip(2 * p[1] - value, 0, 2 * MaxVal) + 1, 2),
      p[2],
      AsUint8(Clip(2 * p[3] + value, 0, 2 * MaxVal) + 1, 2)>>

TemperaturePixel(p, value) ==
    <<AsUint8(Clip(2 * p[1] - value, 0, 2 * MaxVal), 2),
      p[2],
      AsUint8(Clip(2 * p[3] + value, 0, 2 * MaxVal), 2)>>

adjust_temperature(image, value) ==
    [image EXCEPT !.px =
        [i \in 1..Len(image.px) |-> TemperaturePixel(image.px[i], value)]]

\* mutant: the green channel stored without clipping
TintPixelNoClip(p, value) ==
    <<p[1], AsUint8(2 * p[2] - value, 2), p[3]>>

TintPixel(p, value) ==
    <<p[1],
      AsUint8(Clip(2 * p[2] - value, 0, 2 * MaxVal), 2),
      p[3]>>

adjust_tint(image, value) ==
    [image EXCEPT !.px =
        [i \in 1..Len(image.px) |-> TintPixel(image.px[i], value)]]

\* cv2.cvtColor(., COLOR_BGR2HSV) on uint8 data (OpenCV RGB2HSV_b, hue range
\* 180): fixed-point arithmetic with a 12-bit shift (hsv_shift).
HsvOne == 2^12

sdiv_table(i) == IF i = 0 THEN 0 ELSE RoundDiv(MaxVal * HsvOne, i)

hdiv_table180(i) == IF i = 0 THEN 0 ELSE RoundDiv(180 * HsvOne, 6 * i)

BGR2HSV(p) ==
    LET b == p[1]
        g == p[2]
        r == p[3]
        v == Max2(b, Max2(g, r))
        vmin == Min2(b, Min2(g, r))
        diff == v - vmin
        s == (diff * sdiv_table(v) + (HsvOne \div 2)) \div HsvOne
        h0 == IF v = r THEN g - b
              ELSE IF v = g THEN b - r + 2 * diff
              ELSE r - g + 4 * diff
        h1 == (h0 * hdiv_table180(diff) + (HsvOne \div 2)) \div HsvOne
        h == IF h1 < 0 THEN h1 + 180 ELSE h1
    IN  <<h, s, v>>

\* cv2.cvtColor(., COLOR_HSV2BGR) on uint8 data (OpenCV HSV2RGB_b): the hue
\* sector is h*6/180, tab holds v, v(1-s), v(1-s*f), v(1-s*(1-f)) with s, v
\* scaled by 1/255 and f the fraction of the hue inside its sector; each
\* output is tab*255 rounded.  The quotients are carried exactly.
HSV2BGR(q) ==
    LET h == q[1] % 180
        s == q[2]
        v == q[3]
        sector == h \div 30
        f == h % 30
        den == MaxVal * 30
        tab == <<RoundDiv(v * den, den),
                 RoundDiv(v * (den - 30 * s), den),
                 RoundDiv(v * (den - s * f), den),
                 RoundDiv(v * (den - s * (30 - f)), den)>>
        sector_data == <<<<1, 3, 0>>, <<1, 0, 2>>, <<3, 0, 1>>,
                         <<0, 2, 1>>, <<0, 1, 3>>, <<2, 1, 0>>>>
        sel == sector_data[sector + 1]
    IN  IF s = 0 THEN <<v, v, v>>
        ELSE <<tab[sel[1] + 1], tab[sel[2] + 1], tab[sel[3] + 1]>>

\* mutant: np.clip left out, the sum wraps in the uint8 conversion
BrightnessPixelNoClip(p, value) ==
    LET hsv == BGR2HSV(p)
        v == AsUint8(hsv[3] + value, 1)
    IN  HSV2BGR(<<hsv[1], hsv[2], v>>)

BrightnessPixel(p, value) ==
    LET hsv == BGR2HSV(p)
        v == AsUint8(Clip(hsv[3] + value, 0, MaxVal), 1)
    IN  HSV2BGR(<<hsv[1], hsv[2], v>>)

adjust_brightness(image, value) ==
    [image EXCEPT !.px =
        [i \in 1..Len(image.px) |-> BrightnessPixel(image.px[i], value)]]

\* ---------------------------------------------------------------------
\* float32 arithmetic of the contrast and saturation factors.  A float32 is
\* kept as <<m, e>>, the value m / 2^e with m below 2^Float32Bits.

\* significant digits of a float32
Float32Bits == 24

RECURSIVE BitLength(_)
\* number of binary digits of n >= 0
BitLength(n) == IF n = 0 THEN 0 ELSE 1 + BitLength(n \div 2)

\* round to nearest, ties to even, of floor + rem / (2 * half)
RoundHalfEven(floor, rem, half) ==
    floor + (IF rem > half \/ (rem = half /\ floor % 2 = 1) THEN 1 ELSE 0)

\* factor = 1 + (value / 100) as the float32 it is multiplied as: the
\* float32 nearest to (100 + value) / 100
Factor32(value) ==
    LET k == 100 + value
        q1 == (k * 2^15) \div 100
        r1 == (k * 2^15) % 100
        Floor(e) == q1 * 2^(e - 15) + (r1 * 2^(e - 15)) \div 100
        e == CHOOSE x \in 15..31 :
                 /\ 2^(Float32Bits - 1) <= Floor(x)
                 /\ Floor(x) < 2^Float32Bits
    IN  IF k = 0 THEN <<0, 0>>
        ELSE <<RoundHalfEven(Floor(e), 2 * ((r1 * 2^(e - 15)) % 100), 100), e>>

\* the float32 product of the integer n in 0..255 and the float32 f
Mul32(n, f) ==
    LET mh == f[1] \div 256
        ml == f[1] % 256
        hi == n * mh + (n * ml) \div 256
        lo == (n * ml) % 256
        t == Max2(0, BitLength(hi) + 8 - Float32Bits)
        m == IF t = 0 THEN hi * 256 + lo
             ELSE IF t < 8
             THEN RoundHalfEven(hi * 2^(8 - t) + lo \div 2^t, 2 * (lo % 2^t),
                                2^t)
             ELSE RoundHalfEven(hi \div 2^(t - 8),
                                2 * ((hi % 2^(t - 8)) * 256 + lo), 2^t)
    IN  <<m, f[2] - t>>

\* half the distance from the integer k > 0 to the float32 below it, over
\* 2^g: k is the float32 nearest to everything that close below it
HalfUlpBelow(k, g) ==
    LET x == g + BitLength(k - 1) - 1 - Float32Bits
    IN  IF x < 0 THEN 0 ELSE 2^x

\* mutant: the factor and the product taken exactly
ContrastChannelExact(c, value) ==
    AsUint8(Clip((c - MidGray) * (100 + value) + MidGray * 100, 0, MaxVal * 100), 100)

\* (result - 128) * factor + 128 in float32, clipped to [0, 255], as uint8
ContrastChannel(c, value) ==
    LET p == Mul32(Abs(c - MidGray), Factor32(value))
        scale == 2^p[2]
        whole == p[1] \div scale
        frac == p[1] % scale
        above == MidGray + whole + 1
        below == MidGray - whole
    IN  IF c >= MidGray
        THEN Min2(MaxVal,
                  IF scale - frac <= HalfUlpBelow(above, p[2])
                  THEN above ELSE above - 1)
        ELSE IF below <= 0 THEN 0
        ELSE IF frac = 0 \/ frac <= HalfUlpBelow(below, p[2])
        THEN below ELSE below - 1

\* s * factor in float32, clipped to [0, 255], as uint8
SaturationLevel(s, value) ==
    LET p == Mul32(s, Factor32(value))
    IN  Min2(MaxVal, p[1] \div 2^p[2])

ContrastPixel(p, value) ==
    <<ContrastChannel(p[1], value), ContrastChannel(p[2], value),
      ContrastChannel(p[3], value)>>

adjust_contrast(image, value) ==
    [image EXCEPT !.px =
        [i \in 1..Len(image.px) |-> ContrastPixel(image.px[i], value)]]

SaturationPixel(p, value) ==
    LET hsv == BGR2HSV(p)
        s == SaturationLevel(hsv[2], value)
    IN  HSV2BGR(<<hsv[1], s, hsv[3]>>)

adjust_saturation(image, value) ==
    [image EXCEPT !.px =
        [i \in 1..Len(image.px) |-> SaturationPixel(image.px[i], value)]]

\* values.get(key, 0)
DictGet(values, key, default) ==
    IF key \in DOMAIN values THEN values[key] ELSE default

\* mutant: the array itself handed back, no copy made
SameBuffer(image) ==
    IF "base" \in DOMAIN image THEN image
    ELSE [h |-> image.h, w |-> image.w, cell |-> image.cell, px |-> image.px,
          base |-> [top |-> 0, left |-> 0]]

\* image.copy(): a new array with the same contents
Copy(image) == [h |-> image.h, w |-> image.w, cell |-> image.cell, px |-> image.px]

\* mutant: the brightness step is not skipped when its value is 0
apply_adjustments_no_skip(image, values) ==
    LET r0 == Copy(image)
        r1 == IF DictGet(values, "temperature", 0) # 0
              THEN adjust_temperature(r0, values["temperature"]) ELSE r0
        r2 == IF DictGet(values, "tint", 0) # 0
              THEN adjust_tint(r1, values["tint"]) ELSE r1
    IN  adjust_brightness(r2, DictGet(values, "brightness", 0))

\* mutant: brightness applied first instead of last
apply_adjustments_reordered(image, values) ==
    LET r0 == Copy(image)
        r1 == IF DictGet(values, "brightness", 0) # 0
              THEN adjust_brightness(r0, values["brightness"]) ELSE r0
        r2 == IF DictGet(values, "temperature", 0) # 0
              THEN adjust_temperature(r1, values["temperature"]) ELSE r1
        r3 == IF DictGet(values, "tint", 0) # 0
              THEN adjust_tint(r2, values["tint"]) ELSE r2
    IN  r3

apply_adjustments(image, values) ==
    LET r0 == Copy(image)
        r1 == IF DictGet(values, "temperature", 0) # 0
              THEN adjust_temperature(r0, values["temperature"]) ELSE r0
        r2 == IF DictGet(values, "tint", 0) # 0
              THEN adjust_tint(r1, values["tint"]) ELSE r1
        r3 == IF DictGet(values, "brightness", 0) # 0
              THEN adjust_brightness(r2, values["brightness"]) ELSE r2
    IN  r3

(***************************************************************************)
(* ColorMatcher: histogram matching                                        *)
(***************************************************************************)

\* image[:, :, c] flattened: the sequence of channel c over the blocks (every
\* block stands for cell*cell equal pixels, which scales every histogram bin
\* of the image by the same factor and leaves the normalised CDF unchanged)
Channel(image, c) == [i \in 1..Len(image.px) |-> image.px[i][c]]

\* np.histogram(chan, 256, [0, 256])[0]
Histogram(chan) ==
    [k \in 0..MaxVal |-> Cardinality({i \in 1..Len(chan) : chan[i] = k})]

\* hist.cumsum()
Cumsum(chan) ==
    [k \in 0..MaxVal |-> Cardinality({i \in 1..Len(chan) : chan[i] <= k})]

\* |ref_cdf[j] - src_cdf[i]| for the normalised CDFs cum/cum[-1], both
\* brought to the denominator src_cum[-1] * ref_cum[-1]
CdfDiff(src_cum, ref_cum, i, j) ==
    Abs(ref_cum[j] * src_cum[MaxVal] - src_cum[i] * ref_cum[MaxVal])

\* ---------------------------------------------------------------------
\* The normalised CDFs are float64 quotients. A number of [0, 1] is kept as
\* its binary digits, the integer digit first and FracBits digits after it.

\* digits kept after the binary point
FracBits == 70

\* significant digits of a float64
MantissaBits == 53

RECURSIVE Pow2Mod(_, _)
\* 2^t modulo n
Pow2Mod(t, n) ==
    IF t = 0 THEN 1 % n
    ELSE LET half == Pow2Mod(t \div 2, n)
         IN  (((half * half) % n) * (1 + (t % 2))) % n

\* the digits of k / n for 0 <= k <= n, cut after FracBits digits
QuotientBits(k, n) ==
    <<k \div n>> \o
    [t \in 1..FracBits |->
        (2 * (((k % n) * Pow2Mod(t - 1, n)) % n)) \div n]

\* what the cut left out is not 0
QuotientInexact(k, n) == ((k % n) * Pow2Mod(FracBits, n)) % n # 0

\* one added at digit pos, the carry taken upward
AddUlp(bits, pos) ==
    LET zeros == {i \in 1..pos : bits[i] = 0}
        stop == CHOOSE i \in zeros : \A j \in zeros : j <= i
    IN  <<>> \o [i \in 1..Len(bits) |->
                     IF i < stop THEN bits[i]
                     ELSE IF i = stop THEN 1
                     ELSE IF i <= pos THEN 0
                     ELSE bits[i]]

\* round to nearest, ties to even, at MantissaBits significant digits;
\* sticky says that digits beyond those kept are not all 0
RoundToDouble(bits, sticky) ==
    LET n == Len(bits)
        ones == {i \in 1..n : bits[i] = 1}
        first == CHOOSE i \in ones : \A j \in ones : i <= j
        last == first + MantissaBits - 1
        beyond == sticky \/ \E i \in (last + 2)..n : bits[i] = 1
        kept == SubSeq(bits, 1, last) \o [i \in 1..(n - last) |-> 0]
    IN  IF ones = {} \/ last >= n THEN bits
        ELSE IF bits[last + 1] = 1 /\ (beyond \/ bits[last] = 1)
        THEN AddUlp(kept, last)
        ELSE kept

\* the float64 k / n for 0 <= k <= n
FloatQuotient(k, n) ==
    RoundToDouble(QuotientBits(k, n), QuotientInexact(k, n))

\* x < y for two digit sequences of one length, from digit from on
BitsLessFrom(x, y, from) ==
    \E i \in from..Len(x) :
        /\ x[i] < y[i]
        /\ \A j \in from..(i - 1) : x[j] = y[j]

BitsLess(x, y) == BitsLessFrom(x, y, 1)

\* the digits of x - y (x >= y): digit i borrows when the digits below it
\* of x are less than those of y
BitsMinus(x, y) ==
    <<>> \o [i \in 1..Len(x) |->
                (x[i] - y[i] + 2
                   - (IF BitsLessFrom(x, y, i + 1) THEN 1 ELSE 0)) % 2]

\* np.abs(x - y) of two float64
FloatAbsDiff(x, y) ==
    RoundToDouble(IF BitsLess(x, y) THEN BitsMinus(y, x) ELSE BitsMinus(x, y),
                  FALSE)

\* diff[j] = np.abs(ref_cdf[j] - src_cdf[i]) as the float64 it is
FloatCdfDiff(src_cum, ref_cum, i, j) ==
    FloatAbsDiff(FloatQuotient(ref_cum[j], ref_cum[MaxVal]),
                 FloatQuotient(src_cum[i], src_cum[MaxVal]))

\* diff[j] < diff[k]. Two differences that are not equal as fractions are
\* further apart than any rounding; two that are equal are compared as the
\* float64 computed, which rounding can tell apart (|1/3 - 1/2| and
\* |2/3 - 1/2|).
DiffLess(src_cum, ref_cum, i, j, k) ==
    \/ CdfDiff(src_cum, ref_cum, i, j) < CdfDiff(src_cum, ref_cum, i, k)
    \/ /\ CdfDiff(src_cum, ref_cum, i, j) = CdfDiff(src_cum, ref_cum, i, k)
       /\ ref_cum[j] # ref_cum[k]
       /\ BitsLess(FloatCdfDiff(src_cum, ref_cum, i, j),
                   FloatCdfDiff(src_cum, ref_cum, i, k))

RECURSIVE ArgMinLast(_, _, _, _, _)
\* mutant: the last index of the minimum instead of the first
ArgMinLast(src_cum, ref_cum, i, lo, hi) ==
    IF lo = hi THEN lo
    ELSE LET mid == (lo + hi) \div 2
             left == ArgMinLast(src_cum, ref_cum, i, lo, mid)
             right == ArgMinLast(src_cum, ref_cum, i, mid + 1, hi)
         IN  IF CdfDiff(src_cum, ref_cum, i, right)
                   <= CdfDiff(src_cum, ref_cum, i, left)
             THEN right ELSE left

RECURSIVE ArgMin(_, _, _, _, _)
\* np.argmin(diff) over the indices lo..hi: the first index at which diff is
\* smallest (the lower half wins a tie). A cumulative histogram never
\* falls, so where it is the same at lo and at hi, diff is the same all the
\* way and lo is the first index.
ArgMin(src_cum, ref_cum, i, lo, hi) ==
    IF lo = hi \/ ref_cum[lo] = ref_cum[hi] THEN lo
    ELSE LET mid == (lo + hi) \div 2
             left == ArgMin(src_cum, ref_cum, i, lo, mid)
             right == ArgMin(src_cum, ref_cum, i, mid + 1, hi)
         IN  IF DiffLess(src_cum, ref_cum, i, right, left)
             THEN right ELSE left

\* mutant: the table filled from its last entry backward
lookup_table_mirrored(source_chan, reference_chan) ==
    LET src_cum == Cumsum(source_chan)
        ref_cum == Cumsum(reference_chan)
    IN  [i \in 0..MaxVal |-> ArgMin(src_cum, ref_cum, MaxVal - i, 0, MaxVal)]

\* the 256-entry lookup table of one channel
lookup_table(source_chan, reference_chan) ==
    LET src_cum == Cumsum(source_chan)
        ref_cum == Cumsum(reference_chan)
    IN  [i \in 0..MaxVal |-> ArgMin(src_cum, ref_cum, i, 0, MaxVal)]

\* lookup_table[source]
match_channel_histogram(source_chan, reference_chan) ==
    LET table == lookup_table(source_chan, reference_chan)
    IN  [i \in 1..Len(source_chan) |-> table[source_chan[i]]]

\* mutant: the result is allocated with the reference's shape
match_histograms_ref_shape(src, ref) ==
    LET c1 == match_channel_histogram(Channel(src, 1), Channel(ref, 1))
        c2 == match_channel_histogram(Channel(src, 2), Channel(ref, 2))
        c3 == match_channel_histogram(Channel(src, 3), Channel(ref, 3))
    IN  [ref EXCEPT !.px =
            [i \in 1..Len(ref.px) |->
                IF i <= Len(src.px) THEN <<c1[i], c2[i], c3[i]>>
                ELSE <<0, 0, 0>>]]

\* mutant: the lookup table of the first channel remaps all three
match_histograms_shared(src, ref) ==
    LET table == lookup_table(Channel(src, 1), Channel(ref, 1))
    IN  [src EXCEPT !.px =
            [i \in 1..Len(src.px) |->
                <<table[src.px[i][1]], table[src.px[i][2]],
                  table[src.px[i][3]]>>]]

\* result = np.zeros_like(source), filled channel by channel
match_histograms(src, ref) ==
    LET c1 == match_channel_histogram(Channel(src, 1), Channel(ref, 1))
        c2 == match_channel_histogram(Channel(src, 2), Channel(ref, 2))
        c3 == match_channel_histogram(Channel(src, 3), Channel(ref, 3))
    IN  [src EXCEPT !.px =
            [i \in 1..Len(src.px) |-> <<c1[i], c2[i], c3[i]>>]]

(***************************************************************************)
(* ColorMatcher: statistical transfer in Lab                               *)
(*                                                                         *)
(* cv2.cvtColor to and from Lab is the library's: each conversion is an    *)
(* input of the model, a function from the colours converted to 8-bit      *)
(* triples.  Every block of an image holds the same number of pixels, so   *)
(* np.mean and np.std over the pixels are those over the blocks.  The      *)
(* arithmetic between the two conversions is carried out exactly, on       *)
(* integers: with n the number of blocks, S the sum of a channel and Q the *)
(* sum of its squares, mean = S / n and std = sqrt(n * Q - S * S) / n.     *)
(***************************************************************************)

\* cv2.cvtColor(image, code), conv the library's conversion of each colour
cvtColor(image, conv) ==
    [image EXCEPT !.px = [i \in 1..Len(image.px) |-> conv[image.px[i]]]]

RECURSIVE SumOfChannel(_, _, _)
\* the sum of channel c over the first k blocks
SumOfChannel(px, c, k) ==
    IF k = 0 THEN 0 ELSE SumOfChannel(px, c, k - 1) + px[k][c]

RECURSIVE SumOfSquares(_, _, _)
\* the sum of the squares of channel c over the first k blocks
SumOfSquares(px, c, k) ==
    IF k = 0 THEN 0 ELSE SumOfSquares(px, c, k - 1) + px[k][c] * px[k][c]

\* n^2 * np.std(channel)^2
Spread(image, c) ==
    LET n == Len(image.px)
        sum == SumOfChannel(image.px, c, n)
    IN  n * SumOfSquares(image.px, c, n) - sum * sum

RECURSIVE FracLeq(_, _, _, _)
\* n1 / d1 <= n2 / d2 for n1, n2 >= 0 and d1, d2 > 0, without the products
FracLeq(n1, d1, n2, d2) ==
    IF n1 \div d1 # n2 \div d2 THEN n1 \div d1 < n2 \div d2
    ELSE IF n1 % d1 = 0 THEN TRUE
    ELSE IF n2 % d2 = 0 THEN FALSE
    ELSE FracLeq(d2, n2 % d2, d1, n1 % d1)

\* level <= (x - src_mean) * (ref_std / src_std) + ref_mean for a channel
\* with src_std > 0.  With dev = n_src * x - S_src and
\* lhs = n_ref * level - S_ref this is
\* lhs <= dev * sqrt(ref_spread / src_spread).
AtMostRemapped(level, dev, src_spread, ref_spread, ref_sum, ref_n) ==
    LET lhs == ref_n * level - ref_sum
    IN  IF dev >= 0
        THEN \/ lhs <= 0
             \/ /\ dev > 0
                /\ ref_spread > 0
                /\ FracLeq(lhs * lhs, dev * dev, ref_spread, src_spread)
        ELSE /\ lhs <= 0
             /\ \/ ref_spread = 0
                \/ /\ lhs < 0
                   /\ FracLeq(ref_spread, src_spread, lhs * lhs, dev * dev)

RECURSIVE RemapSearch(_, _, _, _, _, _, _)
\* the largest level of lo..hi that is at most the remapped value, lo being
\* one such
RemapSearch(dev, src_spread, ref_spread, ref_sum, ref_n, lo, hi) ==
    IF lo = hi THEN lo
    ELSE LET mid == (lo + hi + 1) \div 2
         IN  IF AtMostRemapped(mid, dev, src_spread, ref_spread, ref_sum,
                               ref_n)
             THEN RemapSearch(dev, src_spread, ref_spread, ref_sum, ref_n,
                              mid, hi)
             ELSE RemapSearch(dev, src_spread, ref_spread, ref_sum, ref_n,
                              lo, mid - 1)

\* mutant: the remap applied whatever src_std is; for src_std = 0 the
\* quotient is not a number and is stored as 0
TransferValueUnguarded(source_lab, reference_lab, c, x) ==
    LET src_n == Len(source_lab.px)
        ref_n == Len(reference_lab.px)
        src_sum == SumOfChannel(source_lab.px, c, src_n)
        ref_sum == SumOfChannel(reference_lab.px, c, ref_n)
    IN  IF Spread(source_lab, c) > 0
        THEN RemapSearch(src_n * x - src_sum, Spread(source_lab, c),
                         Spread(reference_lab, c), ref_sum, ref_n, 0, MaxVal)
        ELSE 0

\* one value of channel c of result_lab after np.clip(., 0, 255) and
\* astype(np.uint8): the remapped value when src_std > 0, ref_mean otherwise
TransferValue(source_lab, reference_lab, c, x) ==
    LET src_n == Len(source_lab.px)
        ref_n == Len(reference_lab.px)
        src_sum == SumOfChannel(source_lab.px, c, src_n)
        ref_sum == SumOfChannel(reference_lab.px, c, ref_n)
    IN  IF Spread(source_lab, c) > 0
        THEN RemapSearch(src_n * x - src_sum, Spread(source_lab, c),
                         Spread(reference_lab, c), ref_sum, ref_n, 0, MaxVal)
        ELSE ref_sum \div ref_n

\* result_lab as handed to the conversion back: clipped and stored as uint8
TransferLab(source_lab, reference_lab) ==
    [source_lab EXCEPT !.px =
        [i \in 1..Len(source_lab.px) |->
            [c \in 1..3 |->
                TransferValue(source_lab, reference_lab, c,
                              source_lab.px[i][c])]]]

\* ColorMatcher.color_transfer; to_lab and to_bgr are the library's
\* conversions
color_transfer(src, ref, to_lab, to_bgr) ==
    LET source_lab == cvtColor(src, to_lab)
        reference_lab == cvtColor(ref, to_lab)
    IN  cvtColor(TransferLab(source_lab, reference_lab), to_bgr)

(***************************************************************************)
(* ChartDetector                                                           *)
(*                                                                         *)
(* cv2.Canny, cv2.findContours and cv2.approxPolyDP are not computed: what *)
(* they return for an image is an input of the model, a sequence of        *)
(* contours in findContours order, each a record                           *)
(*   [area2  |-> twice cv2.contourArea of the contour as found,            *)
(*    approx |-> the vertices cv2.approxPolyDP reduces it to].             *)
(* A point is <<x, y>>.  Areas are kept doubled (the shoelace sum), patch  *)
(* centres as numerators over PatchDen.                                    *)
(***************************************************************************)
MACBETH_ROWS == 4
MACBETH_COLS == 6
MACBETH_PATCHES == 24
MinChartArea == 10000
MinHistStd == 100
PatchSize == 10

Height(image) == image.h * image.cell
Width(image) == image.w * image.cell

\* twice cv2.contourArea(poly): the absolute shoelace sum
ContourArea2(poly) ==
    LET n == Len(poly)
        Cross(i) ==
            LET p == poly[i]
                q == poly[(i % n) + 1]
            IN  p[1] * q[2] - q[1] * p[2]
        Sum[i \in 0..n] == IF i = 0 THEN 0 ELSE Sum[i - 1] + Cross(i)
    IN  Abs(Sum[n])

RECURSIVE InsertByArea(_, _)
\* insert contour c into a sequence sorted by decreasing area2, behind the
\* contours of equal area (a stable sort keeps the order of equal keys, and
\* reverse=True keeps it too)
InsertByArea(sorted, c) ==
    IF sorted = <<>> THEN <<c>>
    ELSE IF c.area2 > Head(sorted).area2 THEN <<c>> \o sorted
    ELSE <<Head(sorted)>> \o InsertByArea(Tail(sorted), c)

RECURSIVE SortedByArea(_)
\* sorted(contours, key=cv2.contourArea, reverse=True)
SortedByArea(contours) ==
    IF contours = <<>> THEN <<>>
    ELSE InsertByArea(SortedByArea(SubSeq(contours, 1, Len(contours) - 1)),
                      contours[Len(contours)])

SetMin(S) == CHOOSE x \in S : \A y \in S : x <= y
SetMax(S) == CHOOSE x \in S : \A y \in S : x >= y

\* cv2.boundingRect of integer points: <<x, y, w, h>>, the sides inclusive
BoundingRect(poly) ==
    LET xs == {poly[i][1] : i \in 1..Len(poly)}
        ys == {poly[i][2] : i \in 1..Len(poly)}
    IN  <<SetMin(xs), SetMin(ys),
          SetMax(xs) - SetMin(xs) + 1, SetMax(ys) - SetMin(ys) + 1>>

\* length of the overlap of the intervals [a1, a2) and [b1, b2)
Overlap(a1, a2, b1, b2) == Max2(0, Min2(a2, b2) - Max2(a1, b1))

\* number of pixels of block i of the image inside [x1, x2) x [y1, y2)
BlockPixelsIn(image, i, x1, y1, x2, y2) ==
    LET r == (i - 1) \div image.w
        c == (i - 1) % image.w
    IN  Overlap(c * image.cell, (c + 1) * image.cell, x1, x2)
          * Overlap(r * image.cell, (r + 1) * image.cell, y1, y2)

RECURSIVE HsvPixels(_, _, _)
\* the pixels lo..hi of a list, each converted to HSV
HsvPixels(px, lo, hi) ==
    IF lo = hi THEN <<BGR2HSV(px[lo])>>
    ELSE LET mid == (lo + hi) \div 2
         IN  HsvPixels(px, lo, mid) \o HsvPixels(px, mid + 1, hi)

\* cv2.cvtColor(image, cv2.COLOR_BGR2HSV)
cvtColorHSV(image) == [image EXCEPT !.px = HsvPixels(image.px, 1, Len(image.px))]

RECURSIVE LevelCounts(_, _, _, _, _, _, _, _)
\* cv2.calcHist over the region [x1, x2) x [y1, y2) of an HSV image for
\* channel ch, from the blocks lo..hi: the function from each level present
\* to the number of pixels that hold it (every other bin of the histogram
\* is 0)
LevelCounts(hsv, ch, x1, y1, x2, y2, lo, hi) ==
    IF lo = hi
    THEN LET n == BlockPixelsIn(hsv, lo, x1, y1, x2, y2)
         IN  IF n = 0 THEN EmptyBag ELSE hsv.px[lo][ch] :> n
    ELSE LET mid == (lo + hi) \div 2
         IN  LevelCounts(hsv, ch, x1, y1, x2, y2, lo, mid)
               (+) LevelCounts(hsv, ch, x1, y1, x2, y2, mid + 1, hi)

RECURSIVE SumSquares(_, _, _, _, _, _, _, _, _)
\* sum of count^2 over the levels present: each pixel of the region adds the
\* count of its own level; from the blocks lo..hi
SumSquares(hsv, ch, counts, x1, y1, x2, y2, lo, hi) ==
    IF lo = hi
    THEN LET n == BlockPixelsIn(hsv, lo, x1, y1, x2, y2)
         IN  IF n = 0 THEN 0 ELSE n * counts[hsv.px[lo][ch]]
    ELSE LET mid == (lo + hi) \div 2
         IN  SumSquares(hsv, ch, counts, x1, y1, x2, y2, lo, mid)
               + SumSquares(hsv, ch, counts, x1, y1, x2, y2, mid + 1, hi)

\* np.std(hist) < limit for the histogram of channel ch over the region
\* [x1, x2) x [y1, y2) of an HSV image, bins the number of its bins.  With
\* c_k the bin counts, N their sum:
\* std^2 = (bins * sum c_k^2 - N^2) / bins^2, so std < limit
\* iff sum c_k^2 < (N^2 + limit^2 * bins^2) / bins.
HistStdBelow(hsv, ch, bins, limit, x1, y1, x2, y2) ==
    LET counts == LevelCounts(hsv, ch, x1, y1, x2, y2, 1, Len(hsv.px))
        n == (x2 - x1) * (y2 - y1)
        bound == n * n + limit * limit * bins * bins
    IN  SumSquares(hsv, ch, counts, x1, y1, x2, y2, 1, Len(hsv.px))
            <= (bound - 1) \div bins

\* mutant: the aspect-ratio test left out
validate_chart_any_aspect(image, contour) ==
    LET rect == BoundingRect(contour)
        x == rect[1]
        y == rect[2]
        w == rect[3]
        h == rect[4]
        x2 == Min2(x + w, Width(image))
        y2 == Min2(y + h, Height(image))
    IN  /\ x2 > x /\ y2 > y
        /\ LET hsv_roi == cvtColorHSV(image)
           IN  /\ ~HistStdBelow(hsv_roi, 1, 180, MinHistStd, x, y, x2, y2)
               /\ ~HistStdBelow(hsv_roi, 2, MaxVal + 1, MinHistStd,
                                x, y, x2, y2)

\* mutant: the two aspect-ratio intervals closed
validate_chart_closed(image, contour) ==
    LET rect == BoundingRect(contour)
        w == rect[3]
        h == rect[4]
    IN  /\ \/ 12 * h <= 10 * w /\ w <= 2 * h
           \/ h <= 2 * w /\ 100 * w <= 85 * h
        /\ validate_chart_any_aspect(image, contour)

\* ChartDetector._validate_chart: aspect_ratio = w / h strictly inside
\* (1.2, 2.0) or (0.5, 0.85), a non-empty region image[y:y+h, x:x+w], and
\* the hue and saturation histograms of the region each with std >= 100
validate_chart(image, contour) ==
    LET rect == BoundingRect(contour)
        x == rect[1]
        y == rect[2]
        w == rect[3]
        h == rect[4]
        x2 == Min2(x + w, Width(image))
        y2 == Min2(y + h, Height(image))
    IN  /\ h > 0
        /\ \/ 12 * h < 10 * w /\ w < 2 * h
           \/ h < 2 * w /\ 100 * w < 85 * h
        /\ x2 > x /\ y2 > y
        /\ LET hsv_roi == cvtColorHSV(image)
           IN  /\ ~HistStdBelow(hsv_roi, 1, 180, MinHistStd, x, y, x2, y2)
               /\ ~HistStdBelow(hsv_roi, 2, MaxVal + 1, MinHistStd,
                                x, y, x2, y2)

\* index of the first smallest / largest element (np.argmin / np.argmax)
FirstArgMin(vals) ==
    CHOOSE i \in 1..Len(vals) :
        /\ \A j \in 1..Len(vals) : vals[i] <= vals[j]
        /\ \A j \in 1..(i - 1) : vals[j] > vals[i]

FirstArgMax(vals) ==
    CHOOSE i \in 1..Len(vals) :
        /\ \A j \in 1..Len(vals) : vals[i] >= vals[j]
        /\ \A j \in 1..(i - 1) : vals[j] < vals[i]

\* mutant: the difference taken as x - y
order_points_swapped(pts) ==
    LET s == [i \in 1..Len(pts) |-> pts[i][1] + pts[i][2]]
        diff == [i \in 1..Len(pts) |-> pts[i][1] - pts[i][2]]
    IN  <<pts[FirstArgMin(s)], pts[FirstArgMin(diff)],
          pts[FirstArgMax(s)], pts[FirstArgMax(diff)]>>

\* ChartDetector._order_points: s = x + y, diff = y - x
order_points(pts) ==
    LET s == [i \in 1..Len(pts) |-> pts[i][1] + pts[i][2]]
        diff == [i \in 1..Len(pts) |-> pts[i][2] - pts[i][1]]
    IN  <<pts[FirstArgMin(s)], pts[FirstArgMin(diff)],
          pts[FirstArgMax(s)], pts[FirstArgMax(diff)]>>

PatchDen == (2 * MACBETH_COLS) * (2 * MACBETH_ROWS)

\* mutant: the relative positions doubled, (2 col + 1) / cols and
\* (2 row + 1) / rows
bilinear_interpolate_overshoot(corners, col, row) ==
    LET Coord(k) ==
            LET top == 2 * MACBETH_COLS * corners[1][k]
                         + (4 * col + 2) * (corners[2][k] - corners[1][k])
                bottom == 2 * MACBETH_COLS * corners[4][k]
                            + (4 * col + 2) * (corners[3][k] - corners[4][k])
            IN  2 * MACBETH_ROWS * top + (4 * row + 2) * (bottom - top)
    IN  <<Coord(1), Coord(2)>>

\* mutant: the bottom edge walked from the bottom-right corner
bilinear_interpolate_reversed(corners, col, row) ==
    LET Coord(k) ==
            LET top == 2 * MACBETH_COLS * corners[1][k]
                         + (2 * col + 1) * (corners[2][k] - corners[1][k])
                bottom == 2 * MACBETH_COLS * corners[3][k]
                            + (2 * col + 1) * (corners[4][k] - corners[3][k])
            IN  2 * MACBETH_ROWS * top + (2 * row + 1) * (bottom - top)
    IN  <<Coord(1), Coord(2)>>

\* ChartDetector._bilinear_interpolate with rel_x = (col + 0.5) / cols and
\* rel_y = (row + 0.5) / rows: top and bottom over 2*cols, the point over
\* PatchDen
bilinear_interpolate(corners, col, row) ==
    LET Coord(k) ==
            LET top == 2 * MACBETH_COLS * corners[1][k]
                         + (2 * col + 1) * (corners[2][k] - corners[1][k])
                bottom == 2 * MACBETH_COLS * corners[4][k]
                            + (2 * col + 1) * (corners[3][k] - corners[4][k])
            IN  2 * MACBETH_ROWS * top + (2 * row + 1) * (bottom - top)
    IN  <<Coord(1), Coord(2)>>

\* mutant: the grid walked column by column
calculate_patch_centers_by_column(corners) ==
    LET ordered == order_points(corners)
        centers == [k \in 1..(MACBETH_ROWS * MACBETH_COLS) |->
                       bilinear_interpolate(ordered, (k - 1) \div MACBETH_ROWS,
                                            (k - 1) % MACBETH_ROWS)]
    IN  SubSeq(centers, 1, MACBETH_ROWS * MACBETH_COLS)

\* ChartDetector._calculate_patch_centers: rows outside, columns inside
calculate_patch_centers(corners) ==
    LET ordered == order_points(corners)
        centers == [k \in 1..(MACBETH_ROWS * MACBETH_COLS) |->
                       bilinear_interpolate(ordered, (k - 1) % MACBETH_COLS,
                                            (k - 1) \div MACBETH_COLS)]
    IN  SubSeq(centers, 1, MACBETH_ROWS * MACBETH_COLS)

\* the test of one contour in detect_chart's loop
IsCandidate(contour) ==
    /\ Len(contour.approx) = 4
    /\ ContourArea2(contour.approx) > 2 * MinChartArea

ChartRegion(approx) ==
    [corners |-> approx, patches |-> calculate_patch_centers(approx)]

RECURSIVE FirstChart(_, _)
\* the loop of detect_chart over the sorted contours
FirstChart(image, sorted) ==
    IF sorted = <<>> THEN None
    ELSE IF IsCandidate(Head(sorted))
              /\ validate_chart(image, Head(sorted).approx)
         THEN ChartRegion(Head(sorted).approx)
         ELSE FirstChart(image, Tail(sorted))

\* mutant: the contours taken in findContours order, not sorted
detect_chart_unsorted(image, contours) == FirstChart(image, contours)

\* ChartDetector.detect_chart; contours is cv2.findContours' answer for the
\* image
detect_chart(image, contours) == FirstChart(image, SortedByArea(contours))

RECURSIVE RowSum(_, _, _, _, _, _, _)
\* sum of channel c over the pixels [x1, x2) of one pixel row of block row r,
\* from the block columns lo..hi
RowSum(image, c, r, x1, x2, lo, hi) ==
    IF lo = hi
    THEN Overlap(lo * image.cell, (lo + 1) * image.cell, x1, x2)
           * image.px[r * image.w + lo + 1][c]
    ELSE LET mid == (lo + hi) \div 2
         IN  RowSum(image, c, r, x1, x2, lo, mid)
               + RowSum(image, c, r, x1, x2, mid + 1, hi)

RECURSIVE WindowSum(_, _, _, _, _, _, _, _)
\* sum of channel c over the pixels of [x1, x2) x [y1, y2), a window inside
\* the image, from the block rows lo..hi
WindowSum(image, c, x1, y1, x2, y2, lo, hi) ==
    IF lo = hi
    THEN Overlap(lo * image.cell, (lo + 1) * image.cell, y1, y2)
           * RowSum(image, c, lo, x1, x2, x1 \div image.cell,
                    (x2 - 1) \div image.cell)
    ELSE LET mid == (lo + hi) \div 2
         IN  WindowSum(image, c, x1, y1, x2, y2, lo, mid)
               + WindowSum(image, c, x1, y1, x2, y2, mid + 1, hi)

\* np.mean of a window, axis (0, 1), kept as
\* <<sum of blue, sum of green, sum of red, number of pixels>>
WindowMean(image, x1, y1, x2, y2) ==
    LET top == y1 \div image.cell
        bottom == (y2 - 1) \div image.cell
    IN  <<WindowSum(image, 1, x1, y1, x2, y2, top, bottom),
          WindowSum(image, 2, x1, y1, x2, y2, top, bottom),
          WindowSum(image, 3, x1, y1, x2, y2, top, bottom),
          (x2 - x1) * (y2 - y1)>>

\* the window of one patch centre: <<x1, y1, x2, y2>>
PatchWindow(image, center, patch_size) ==
    LET cx == TruncDiv(center[1], PatchDen)
        cy == TruncDiv(center[2], PatchDen)
    IN  <<Max2(0, cx - patch_size), Max2(0, cy - patch_size),
          Min2(Width(image), cx + patch_size),
          Min2(Height(image), cy + patch_size)>>

RECURSIVE CollectColors(_, _, _, _)
\* the loop of extract_colors over the patches k..24
CollectColors(image, patches, patch_size, k) ==
    IF k > Len(patches) THEN <<>>
    ELSE LET win == PatchWindow(image, patches[k], patch_size)
             rest == CollectColors(image, patches, patch_size, k + 1)
         IN  IF win[3] <= win[1] \/ win[4] <= win[2] THEN rest
             ELSE <<WindowMean(image, win[1], win[2], win[3], win[4])>>
                      \o rest

\* mutant: a chart is given up at 12 samples too
extract_colors_at_most(image, chart, patch_size) ==
    IF chart = None THEN None
    ELSE IF Len(chart.patches) = 0 THEN None
    ELSE LET colors == CollectColors(image, chart.patches, patch_size, 1)
         IN  IF Len(colors) <= MACBETH_PATCHES \div 2 THEN None
             ELSE [colors |-> colors]

\* ChartDetector.extract_colors
extract_colors(image, chart, patch_size) ==
    IF chart = None THEN None
    ELSE IF Len(chart.patches) = 0 THEN None
    ELSE LET colors == CollectColors(image, chart.patches, patch_size, 1)
         IN  IF Len(colors) < MACBETH_PATCHES \div 2 THEN None
             ELSE [colors |-> colors]

(***************************************************************************)
(* ColorMatcher: chart-based matching                                      *)
(*                                                                         *)
(* np.linalg.lstsq is not computed: the matrix it returns is an input of   *)
(* the model, a record [m |-> 3 x 3 numerators, den |-> their denominator].*)
(***************************************************************************)

\* one channel of np.dot(pixel, transform), clipped and stored as uint8
TransformChannel(p, transform, j) ==
    AsUint8(Clip(p[1] * transform.m[1][j] + p[2] * transform.m[2][j]
                   + p[3] * transform.m[3][j], 0, MaxVal * transform.den),
            transform.den)

\* mutant: the product stored without clipping
TransformPixelNoClip(p, transform) ==
    [j \in 1..3 |->
        AsUint8(p[1] * transform.m[1][j] + p[2] * transform.m[2][j]
                  + p[3] * transform.m[3][j], transform.den)]

TransformPixel(p, transform) ==
    [j \in 1..3 |-> TransformChannel(p, transform, j)]

\* ColorMatcher._apply_color_transform
apply_color_transform(image, transform) ==
    [image EXCEPT !.px =
        [i \in 1..Len(image.px) |-> TransformPixel(image.px[i], transform)]]

\* np.linalg.lstsq raises LinAlgError when its two arguments differ in rows
Raised == [raised |-> "LinAlgError"]

\* mutant: the source is handed back when no chart is found
match_with_chart_fallback(src, ref, src_contours, ref_contours, fit) ==
    LET source_chart == detect_chart(src, src_contours)
        reference_chart == detect_chart(ref, ref_contours)
        source_colors == extract_colors(src, source_chart, PatchSize)
        reference_colors == extract_colors(ref, reference_chart, PatchSize)
    IN  IF source_chart = None \/ reference_chart = None THEN Copy(src)
        ELSE IF source_colors = None \/ reference_colors = None THEN None
        ELSE IF Len(source_colors.colors) # Len(reference_colors.colors)
             THEN Raised
        ELSE apply_color_transform(src, fit)

\* ColorMatcher.match_with_chart; fit is the matrix lstsq returns for the two
\* colour arrays
match_with_chart(src, ref, src_contours, ref_contours, fit) ==
    LET source_chart == detect_chart(src, src_contours)
        reference_chart == detect_chart(ref, ref_contours)
        source_colors == extract_colors(src, source_chart, PatchSize)
        reference_colors == extract_colors(ref, reference_chart, PatchSize)
    IN  IF source_chart = None \/ reference_chart = None THEN None
        ELSE IF source_colors = None \/ reference_colors = None THEN None
        ELSE IF Len(source_colors.colors) # Len(reference_colors.colors)
             THEN Raised
        ELSE apply_color_transform(src, fit)

(***************************************************************************)
(* Inputs.                                                                 *)
(***************************************************************************)
Palette ==
    {<<MidGray, MidGray, MidGray>>, <<0, 0, 0>>, <<MaxVal, MaxVal, MaxVal>>,
     <<10, 200, 250>>, <<MaxVal, 1, 0>>}

\* every h x w image of at most MaxPixels pixels over a set of colours
ImagesOver(colours) ==
    UNION {{[h |-> hh, w |-> ww, cell |-> 1, px |-> q] : q \in [1..(hh * ww) -> colours]} :
           <<hh, ww>> \in {d \in (1..MaxPixels) \X (1..MaxPixels) :
                              d[1] * d[2] <= MaxPixels}}

\* a 1 x 1 image of every gray level
GrayImages ==
    {[h |-> 1, w |-> 1, cell |-> 1, px |-> <<<<g, g, g>>>>] : g \in 0..MaxVal}

ToneImages == GrayImages \cup ImagesOver(Palette)

SliderRange == (-SliderMax)..SliderMax

AdjVals == {-SliderMax, -1, 0, 1, 50}

AdjKeys == {"temperature", "tint", "brightness"}

\* every dict over a subset of the three keys
ValueDicts == UNION {[D -> AdjVals] : D \in SUBSET AdjKeys}

(***************************************************************************)
(* The tonal engine as a state machine: a caller holds `source`, calls one *)
(* operation and receives `result`; `given` is the image as it was handed  *)
(* in.                                                                     *)
(***************************************************************************)
ToneInit ==
    /\ source \in ToneImages
    /\ reference = NoImage
    /\ found = NoContours
    /\ given = source
    /\ op = "none"
    /\ args = <<>>
    /\ result = None
    /\ shell = NoShell

\* none of the operations writes into its argument
Call(name, a, r) ==
    /\ op' = name
    /\ args' = a
    /\ result' = r
    /\ UNCHANGED <<source, reference, found, given, shell>>

ApplyAdjustments ==
    /\ op = "none"
    /\ \E values \in ValueDicts :
           Call("apply_adjustments", values, apply_adjustments(source, values))

AdjustTemperature ==
    /\ op = "none"
    /\ \E v \in SliderRange :
           Call("adjust_temperature", v, adjust_temperature(source, v))

AdjustTint ==
    /\ op = "none"
    /\ \E v \in SliderRange :
           Call("adjust_tint", v, adjust_tint(source, v))

AdjustBrightness ==
    /\ op = "none"
    /\ \E v \in SliderRange :
           Call("adjust_brightness", v, adjust_brightness(source, v))

AdjustContrast ==
    /\ op = "none"
    /\ \E v \in SliderRange :
           Call("adjust_contrast", v, adjust_contrast(source, v))

AdjustSaturation ==
    /\ op = "none"
    /\ \E v \in SliderRange :
           Call("adjust_saturation", v, adjust_saturation(source, v))

ToneNext ==
    \/ ApplyAdjustments
    \/ AdjustTemperature
    \/ AdjustTint
    \/ AdjustBrightness
    \/ AdjustContrast
    \/ AdjustSaturation

SpecTone == ToneInit /\ [][ToneNext]_vars

(***************************************************************************)
(* Properties of the tonal engine.                                         *)
(***************************************************************************)
RECURSIVE SumChannel(_, _, _)
\* sum of channel c over the first n pixels of a pixel sequence
SumChannel(px, c, n) ==
    IF n = 0 THEN 0 ELSE px[n][c] + SumChannel(px, c, n - 1)

\* the channel means of two images of the same size compare as the sums do
ChannelSum(image, c) == SumChannel(image.px, c, Len(image.px))

TotalSum(image) ==
    ChannelSum(image, 1) + ChannelSum(image, 2) + ChannelSum(image, 3)

IsUniform(image, level) ==
    /\ Len(image.px) >= 1
    /\ \A i \in 1..Len(image.px) : image.px[i] = <<level, level, level>>

Neutral(values) == \A k \in AdjKeys : DictGet(values, k, 0) = 0

\* C1: apply_adjustments with temperature, tint and brightness all 0 or
\* missing returns a buffer equal to the image handed in, and the caller's
\* image is still what was handed in.
C1_NeutralIsIdentity ==
    (op = "apply_adjustments" /\ Neutral(args)) =>
        (result = given /\ source = given)

\* a neutral call with a key missing, on a two-pixel image with a colour the
\* HSV round trip would change
C1_Witness ==
    /\ op = "apply_adjustments"
    /\ Neutral(args)
    /\ DOMAIN args = {"tint"}
    /\ Len(given.px) = 2
    /\ given.px[1] = <<10, 200, 250>>
    /\ result = given

\* C2: the result of apply_adjustments is brightness after tint after
\* temperature, each step with parameter 0 (or missing) being the identity.
C2_FixedOrder ==
    op = "apply_adjustments" =>
        LET t == DictGet(args, "temperature", 0)
            n == DictGet(args, "tint", 0)
            b == DictGet(args, "brightness", 0)
            s1 == IF t = 0 THEN given ELSE adjust_temperature(given, t)
            s2 == IF n = 0 THEN s1 ELSE adjust_tint(s1, n)
            s3 == IF b = 0 THEN s2 ELSE adjust_brightness(s2, b)
        IN  result = s3

\* all three steps taken, on an image where another order gives another result
C2_Witness ==
    /\ op = "apply_adjustments"
    /\ DOMAIN args = AdjKeys
    /\ \A k \in AdjKeys : args[k] # 0
    /\ result # adjust_tint(adjust_temperature(
                    adjust_brightness(given, args["brightness"]),
                    args["temperature"]), args["tint"])

\* C3: adjust_temperature takes value*0.5 from blue and adds it to red,
\* clipped to [0,255] and stored as uint8 (the fraction of a half is
\* dropped); green is unchanged; uniform 128 with +50 gives red 153, green
\* 128, blue 103.
C3_Temperature ==
    op = "adjust_temperature" =>
        /\ Shape(result) = Shape(given)
        /\ \A i \in 1..Len(given.px) :
             LET p == given.px[i]
                 q == result.px[i]
                 blue2 == Clip(2 * p[1] - args, 0, 2 * MaxVal)
                 red2 == Clip(2 * p[3] + args, 0, 2 * MaxVal)
             IN  /\ q[2] = p[2]
                 /\ 2 * q[1] <= blue2 /\ blue2 < 2 * q[1] + 2
                 /\ 2 * q[3] <= red2 /\ red2 < 2 * q[3] + 2
        /\ (IsUniform(given, MidGray) /\ args = 50) =>
             \A i \in 1..Len(result.px) : result.px[i] = <<103, 128, 153>>

C3_Witness ==
    /\ op = "adjust_temperature"
    /\ args = 50
    /\ IsUniform(given, MidGray)
    /\ Len(given.px) = 2
    /\ result.px = <<<<103, 128, 153>>, <<103, 128, 153>>>>

\* C4, as claimed: on a uniform mid-gray image every v in 1..100 makes the red
\* mean strictly greater and the blue mean strictly smaller, every v in
\* -100..-1 the blue mean strictly greater and the red mean strictly smaller.
C4_Claimed ==
    (op = "adjust_temperature" /\ IsUniform(given, MidGray)) =>
        /\ args > 0 => /\ ChannelSum(result, 3) > ChannelSum(given, 3)
                       /\ ChannelSum(result, 1) < ChannelSum(given, 1)
        /\ args < 0 => /\ ChannelSum(result, 1) > ChannelSum(given, 1)
                       /\ ChannelSum(result, 3) < ChannelSum(given, 3)

\* C4, amended: the cooled channel's mean is strictly smaller for every v # 0;
\* the warmed channel's mean is strictly greater for |v| >= 2 and unchanged
\* for |v| = 1 (128.5 is stored as 128).
C4_Amended ==
    (op = "adjust_temperature" /\ IsUniform(given, MidGray)) =>
        /\ args > 0 => /\ ChannelSum(result, 1) < ChannelSum(given, 1)
                       /\ args >= 2 =>
                            ChannelSum(result, 3) > ChannelSum(given, 3)
                       /\ args = 1 =>
                            ChannelSum(result, 3) = ChannelSum(given, 3)
        /\ args < 0 => /\ ChannelSum(result, 3) < ChannelSum(given, 3)
                       /\ args <= -2 =>
                            ChannelSum(result, 1) > ChannelSum(given, 1)
                       /\ args = -1 =>
                            ChannelSum(result, 1) = ChannelSum(given, 1)

C4_Witness ==
    /\ op = "adjust_temperature"
    /\ IsUniform(given, MidGray)
    /\ Len(given.px) = 2
    /\ args = 1
    /\ ChannelSum(result, 3) = ChannelSum(given, 3)
    /\ ChannelSum(result, 1) < ChannelSum(given, 1)

\* C5: adjust_brightness maps a gray pixel g to the gray pixel
\* clip(g + v, 0, 255); on a uniform mid-gray image the mean rises for v > 0
\* and falls for v < 0.
C5_Brightness ==
    op = "adjust_brightness" =>
        /\ \A i \in 1..Len(given.px) :
             LET p == given.px[i]
                 c == Clip(p[1] + args, 0, MaxVal)
             IN  (p[1] = p[2] /\ p[2] = p[3]) => result.px[i] = <<c, c, c>>
        /\ IsUniform(given, MidGray) =>
             /\ args > 0 => TotalSum(result) > TotalSum(given)
             /\ args < 0 => TotalSum(result) < TotalSum(given)

\* a gray pixel whose sum with v leaves the uint8 range
C5_Witness ==
    /\ op = "adjust_brightness"
    /\ args = SliderMax
    /\ given.px = <<<<200, 200, 200>>>>
    /\ result.px = <<<<MaxVal, MaxVal, MaxVal>>>>

(***************************************************************************)
(* Histogram matching as a state machine: the caller holds a source and a  *)
(* reference image and calls match_histograms once.                        *)
(***************************************************************************)
HistPalette == {<<0, 70, 200>>, <<70, 70, MaxVal>>}

HistImages == ImagesOver(HistPalette)

\* a reference of three pixels and three levels in its first channel, whose
\* normalised CDF takes the values 1/3 and 2/3
Thirds ==
    [h |-> 1, w |-> 3, cell |-> 1,
     px |-> <<<<0, 70, 200>>, <<70, 70, MaxVal>>, <<200, 0, MaxVal>>>>]

HistReferences == HistImages \cup {Thirds}

HistInit ==
    /\ source \in HistImages
    /\ reference \in HistReferences
    /\ found = NoContours
    /\ given = source
    /\ op = "none"
    /\ args = <<>>
    /\ result = None
    /\ shell = NoShell

MatchHistograms ==
    /\ op = "none"
    /\ Call("match_histograms", <<>>, match_histograms(source, reference))

HistNext == MatchHistograms

SpecHist == HistInit /\ [][HistNext]_vars

\* C6: match_histograms(X, X) is X: in each channel the lookup table maps
\* every level that occurs in X to itself (every pixel of the result is the
\* table's entry for the source pixel, so the two say the same).
C6_SelfMatchIdentity ==
    (op = "match_histograms" /\ reference = given) => result = given

\* X matched against itself, X with two different colours
C6_Witness ==
    /\ op = "match_histograms"
    /\ reference = given
    /\ Len(given.px) = 2
    /\ given.px[1] # given.px[2]
    /\ result = given

(***************************************************************************)
(* Chart detection and chart matching as a state machine.  The images are  *)
(* 160 rows by 240 columns; `found` holds    the contours the library      *)
(* finds in each and, for the chart match, the matrix the fit returns.     *)
(***************************************************************************)
MaxContours == 2

\* one colour everywhere
FlatImage ==
    [h |-> 2, w |-> 3, cell |-> 80, px |-> [i \in 1..6 |-> <<90, 120, 200>>]]

\* a 4 x 6 chart of 24 colours filling the frame
ChartImage ==
    [h |-> 4, w |-> 6, cell |-> 40,
     px |-> [i \in 1..24 |->
                <<(i * 37) % (MaxVal + 1), (i * 91) % (MaxVal + 1),
                  (i * 10) % (MaxVal + 1)>>]]

\* a fine texture: 384 blocks of 10 pixels whose hues run through the circle
TexturedImage ==
    [h |-> 16, w |-> 24, cell |-> 10,
     px |-> [i \in 1..384 |->
                HSV2BGR(<<(i * 7) % 180, 100 + ((i * 11) % 150), MaxVal>>)]]

ChartImages == {FlatImage, ChartImage, TexturedImage}

\* contours as the library may report them; area2 is twice the area of the
\* contour as found, which is not the area of its 4-point approximation
QuadWide ==
    [area2 |-> 31502,
     approx |-> <<<<40, 30>>, <<40, 129>>, <<189, 129>>, <<189, 30>>>>]

Diamond ==
    [area2 |-> 29000,
     approx |-> <<<<120, 5>>, <<20, 80>>, <<120, 155>>, <<220, 80>>>>]

QuadTall ==
    [area2 |-> 32482,
     approx |-> <<<<60, 5>>, <<169, 5>>, <<169, 154>>, <<60, 154>>>>]

Square ==
    [area2 |-> 40000,
     approx |-> <<<<20, 20>>, <<20, 139>>, <<139, 139>>, <<139, 20>>>>]

QuadSmall ==
    [area2 |-> 6750,
     approx |-> <<<<5, 5>>, <<5, 50>>, <<80, 50>>, <<80, 5>>>>]

ContourShapes == {QuadWide, Diamond, QuadTall, Square, QuadSmall}

ContourLists == UNION {[1..n -> ContourShapes] : n \in 0..MaxContours}

\* what the reference may be: a chart in view, nothing in view, an outline
\* that is no chart
ReferenceScenes ==
    {<<ChartImage, <<QuadWide>>>>, <<FlatImage, <<>>>>,
     <<FlatImage, <<Square>>>>}

Gain(b, g, r, d) ==
    [m |-> <<<<b, 0, 0>>, <<0, g, 0>>, <<0, 0, r>>>>, den |-> d]

\* matrices the fit may return: a gain that overflows, a mix with negative
\* coefficients
Fits ==
    {Gain(15, 9, 30, 10),
     [m |-> <<<<12, -3, 0>>, <<-20, 11, 1>>, <<0, -4, 13>>>>, den |-> 10]}

ChartInit ==
    /\ source \in ChartImages
    /\ \E scene \in ReferenceScenes, list \in ContourLists :
          /\ reference = scene[1]
          /\ found = [source |-> list, reference |-> scene[2]]
    /\ given = source
    /\ op = "none"
    /\ args = <<>>
    /\ result = None
    /\ shell = NoShell

DetectChart ==
    /\ op = "none"
    /\ Call("detect_chart", <<>>, detect_chart(source, found.source))

MatchWithChart ==
    /\ op = "none"
    /\ \E fit \in Fits :
          Call("match_with_chart", fit,
               match_with_chart(source, reference, found.source,
                                found.reference, fit))

ChartNext == DetectChart \/ MatchWithChart

SpecChart == ChartInit /\ [][ChartNext]_vars

(***************************************************************************)
(* Properties of chart detection and chart-based matching.                 *)
(***************************************************************************)

\* the steps of match_with_chart that can fail, on the images as given
SomeStepFailed ==
    LET source_chart == detect_chart(given, found.source)
        reference_chart == detect_chart(reference, found.reference)
    IN  \/ source_chart = None
        \/ reference_chart = None
        \/ extract_colors(given, source_chart, PatchSize) = None
        \/ extract_colors(reference, reference_chart, PatchSize) = None

IsBuffer(r) == "px" \in DOMAIN r

\* C8: whenever detect_chart or extract_colors fails on either image,
\* match_with_chart returns the absence value (it does not raise), and a
\* buffer is returned only when all four steps succeeded; the call leaves
\* source and reference as they were.
C8_AbsentOnFailure ==
    /\ [](op = "match_with_chart" =>
            /\ SomeStepFailed => result = None
            /\ IsBuffer(result) => ~SomeStepFailed
            /\ source = given)
    /\ [][op' = "match_with_chart" =>
            source' = source /\ reference' = reference]_vars

\* C8 witness: a chart is found in the source and none in the reference, and
\* the call has returned the absence value
C8_Witness ==
    /\ op = "match_with_chart"
    /\ detect_chart(given, found.source) # None
    /\ detect_chart(reference, found.reference) = None
    /\ found.reference # <<>>
    /\ result = None

\* the contours of the source that pass both tests of the loop
Passing ==
    {i \in 1..Len(found.source) :
        /\ IsCandidate(found.source[i])
        /\ validate_chart(source, found.source[i].approx)}

\* C9 as claimed: absence iff no candidate passes, and the chart returned is
\* the passing candidate whose enclosed area (the area of the 4-vertex
\* candidate, the one compared with 10,000) is largest.
C9_Claimed ==
    op = "detect_chart" =>
        /\ result = None <=> Passing = {}
        /\ result # None =>
              \E i \in Passing :
                  /\ result = ChartRegion(found.source[i].approx)
                  /\ \A j \in Passing :
                        ContourArea2(found.source[i].approx)
                            >= ContourArea2(found.source[j].approx)

\* C9 amended: absence iff no candidate passes, and the chart returned is
\* the passing candidate whose contour as found has the largest area, the
\* earliest found among equals; the area of the 4-vertex approximation decides
\* only whether a contour is a candidate.
C9_Amended ==
    op = "detect_chart" =>
        /\ result = None <=> Passing = {}
        /\ result # None =>
              \E i \in Passing :
                  /\ result = ChartRegion(found.source[i].approx)
                  /\ \A j \in Passing :
                        \/ found.source[i].area2 > found.source[j].area2
                        \/ /\ found.source[i].area2 = found.source[j].area2
                           /\ i <= j

\* C9 witness: two candidates pass, the order of their contour areas is the
\* reverse of the order of their enclosed areas, and a chart was returned
C9_Witness ==
    /\ op = "detect_chart"
    /\ result # None
    /\ \E i, j \in Passing :
          /\ found.source[i].area2 > found.source[j].area2
          /\ ContourArea2(found.source[i].approx)
                < ContourArea2(found.source[j].approx)

\* twice the signed area of a polygon; positive when the points run
\* clockwise on the screen (x to the right, y down)
SignedArea2(poly) ==
    LET n == Len(poly)
        Cross(i) ==
            LET p == poly[i]
                q == poly[(i % n) + 1]
            IN  p[1] * q[2] - q[1] * p[2]
        Sum[i \in 0..n] == IF i = 0 THEN 0 ELSE Sum[i - 1] + Cross(i)
    IN  Sum[n]

ClockwiseFromTopLeft(corners) ==
    /\ Len(corners) = 4
    /\ \A i \in 1..4 :
          corners[1][1] + corners[1][2] <= corners[i][1] + corners[i][2]
    /\ SignedArea2(corners) > 0

RowMajorPatches(chart) ==
    /\ Len(chart.patches) = MACBETH_PATCHES
    /\ \A row \in 0..(MACBETH_ROWS - 1), col \in 0..(MACBETH_COLS - 1) :
          chart.patches[row * MACBETH_COLS + col + 1]
              = bilinear_interpolate(order_points(chart.corners), col, row)

\* C10 as claimed: every chart detect_chart returns stores its four corners
\* clockwise from the top-left one, and 24 patch centres in row-major order
\* of the 4 x 6 grid.
C10_Claimed ==
    (op = "detect_chart" /\ result # None) =>
        /\ ClockwiseFromTopLeft(result.corners)
        /\ RowMajorPatches(result)

\* the part of C10 that the code keeps: the patch list
C10_PatchesOnly ==
    (op = "detect_chart" /\ result # None) => RowMajorPatches(result)

\* a chart returned with its corners in the order the approximation gave
\* them, which is not clockwise from the top-left
C10_Divergence ==
    /\ op = "detect_chart"
    /\ result # None
    /\ ~ClockwiseFromTopLeft(result.corners)
    /\ RowMajorPatches(result)

(***************************************************************************)
(* Every transform on one caller: the tonal engine and the three matching  *)
(* strategies over the same source and reference.                          *)
(***************************************************************************)

\* Lab triples the library may give for a colour
LabSamples == {<<0, MidGray, MidGray>>, <<136, 208, 195>>, <<224, 42, 211>>}

\* colours the library may give for a Lab triple
BgrSamples == {<<0, 0, 0>>, <<MaxVal, 1, 0>>}

Colours(image) == {image.px[i] : i \in 1..Len(image.px)}

\* an image with the contours found in it: none in the small ones, which
\* hold no region of the area a chart needs
Scenes ==
    {<<image, <<>>>> : image \in ImagesOver(HistPalette)}
        \cup {<<FlatImage, <<QuadWide>>>>}

ReferenceImages ==
    {FlatImage,
     [h |-> 1, w |-> 1, cell |-> 1, px |-> <<<<MaxVal, MaxVal, MaxVal>>>>],
     [h |-> 2, w |-> 2, cell |-> 1,
      px |-> <<<<0, 0, 0>>, <<10, 200, 250>>, <<10, 200, 250>>,
               <<MaxVal, 1, 0>>>>]}

Init ==
    /\ \E scene \in Scenes :
          /\ source = scene[1]
          /\ reference \in ReferenceImages
          /\ found = [source |-> scene[2],
                      reference |-> IF reference = FlatImage
                                    THEN <<QuadWide>> ELSE <<>>]
    /\ given = source
    /\ op = "none"
    /\ args = <<>>
    /\ result = None
    /\ shell = NoShell

ColorTransfer ==
    /\ op = "none"
    /\ \E to_lab \in [Colours(source) \cup Colours(reference) -> LabSamples] :
          \E to_bgr \in [Colours(TransferLab(cvtColor(source, to_lab),
                                             cvtColor(reference, to_lab)))
                            -> BgrSamples] :
              Call("color_transfer", <<to_lab, to_bgr>>,
                   color_transfer(source, reference, to_lab, to_bgr))

Next == ToneNext \/ HistNext \/ ColorTransfer \/ ChartNext

Spec == Init /\ [][Next]_vars

Transforms ==
    {"apply_adjustments", "adjust_temperature", "adjust_tint",
     "adjust_brightness", "adjust_contrast", "adjust_saturation",
     "match_histograms", "color_transfer", "match_with_chart"}

\* an array of the shape of the image given, 3 channels, every element an
\* 8-bit unsigned value
IsUint8Like(r, image) ==
    /\ Shape(r) = Shape(image)
    /\ r.h = image.h /\ r.w = image.w
    /\ DOMAIN r.px = 1..(image.h * image.w)
    /\ \A i \in DOMAIN r.px :
          /\ DOMAIN r.px[i] = 1..3
          /\ \A c \in 1..3 : r.px[i][c] \in 0..MaxVal

\* C7: whatever the reference's height and width, the result of
\* match_histograms, of color_transfer, of every adjust_* operation, and of
\* match_with_chart when it is not absent, has the source's height, width and
\* 3 channels, and every element is an 8-bit unsigned value in [0, 255].
C7_ShapeAndRange ==
    op \in Transforms =>
        /\ op # "match_with_chart" => IsBuffer(result)
        /\ IsBuffer(result) => IsUint8Like(result, given)

\* C7 witness: histogram matching against a reference of another height and
\* width has returned an array of the source's shape
C7_Witness ==
    /\ op = "match_histograms"
    /\ Shape(reference) # Shape(given)
    /\ reference.h # given.h
    /\ IsUint8Like(result, given)

(***************************************************************************)
(* ChartDetector.extract_colors called on its own: the chart handed in     *)
(* need not come from the image (a chart found in another frame, a chart   *)
(* near an edge), so patch centres may lie outside the image.              *)
(***************************************************************************)

\* the chart of an upright rectangle with its top-left corner at (x, y)
ChartAt(x, y) ==
    ChartRegion(<<<<x, y>>, <<x + 150, y>>, <<x + 150, y + 100>>,
                  <<x, y + 100>>>>)

\* a patch centre at the pixel (x, y)
CenterAt(x, y) == <<x * PatchDen, y * PatchDen>>

\* a chart whose patch list holds n centres inside a 240 x 160 image, a
\* centre far outside before each third of them
ChartWith(n) ==
    [corners |-> <<<<0, 0>>, <<239, 0>>, <<239, 159>>, <<0, 159>>>>,
     patches |-> [k \in 1..(n + n \div 3) |->
                     IF k % 4 = 1 /\ k \div 4 < n \div 3
                     THEN CenterAt(-50, 2000 + k)
                     ELSE CenterAt(9 * k, 5 * k)]]

ExtractCharts ==
    {None}
        \cup {ChartAt(x, y) : x \in {-200, -110, -60, 40, 150, 226},
                              y \in {-90, -30, 30, 120, 165}}
        \cup {ChartWith(n) : n \in {0, 11, 12, 13}}

PatchSizes == {PatchSize, 0, 3}

ExtractInit ==
    /\ source \in {FlatImage, ChartImage}
    /\ reference = NoImage
    /\ found = NoContours
    /\ given = source
    /\ op = "none"
    /\ args = <<>>
    /\ result = None
    /\ shell = NoShell

ExtractColors ==
    /\ op = "none"
    /\ \E chart \in ExtractCharts, patch_size \in PatchSizes :
          Call("extract_colors", <<chart, patch_size>>,
               extract_colors(source, chart, patch_size))

ExtractNext == ExtractColors

SpecExtract == ExtractInit /\ [][ExtractNext]_vars

\* the window the claim gives for patch k: centre (cx, cy), clipped to the
\* image
ClaimedWindow(image, chart, patch_size, k) ==
    LET cx == TruncDiv(chart.patches[k][1], PatchDen)
        cy == TruncDiv(chart.patches[k][2], PatchDen)
    IN  <<Max2(0, cx - patch_size), Max2(0, cy - patch_size),
          Min2(Width(image), cx + patch_size),
          Min2(Height(image), cy + patch_size)>>

\* the patches whose clipped window is not empty
Sampled(image, chart, patch_size) ==
    {k \in 1..Len(chart.patches) :
        LET win == ClaimedWindow(image, chart, patch_size, k)
        IN  win[1] < win[3] /\ win[2] < win[4]}

\* C11: extract_colors samples for each patch the clipped window around its
\* centre, skips exactly the patches whose window is empty, returns absence
\* when the chart is absent, has no patches, or fewer than 12 patches were
\* sampled, and otherwise one colour per sampled patch, in patch order.
C11_ExtractColors ==
    op = "extract_colors" =>
        LET chart == args[1]
            patch_size == args[2]
        IN  IF chart = None THEN result = None
            ELSE IF Len(chart.patches) = 0 THEN result = None
            ELSE LET sampled == Sampled(source, chart, patch_size)
                 IN  IF Cardinality(sampled) < 12 THEN result = None
                     ELSE /\ result # None
                          /\ Len(result.colors) = Cardinality(sampled)
                          /\ \A k \in sampled :
                                LET win == ClaimedWindow(source, chart,
                                                         patch_size, k)
                                    j == Cardinality({i \in sampled : i <= k})
                                IN  result.colors[j]
                                        = WindowMean(source, win[1], win[2],
                                                     win[3], win[4])

\* C11 witness: some patch was skipped, exactly 12 were sampled, two of the
\* colours returned differ, and colours were returned
C11_Witness ==
    /\ op = "extract_colors"
    /\ args[1] # None
    /\ Cardinality(Sampled(source, args[1], args[2])) = 12
    /\ Len(args[1].patches) > 12
    /\ result # None
    /\ result.colors[1] # result.colors[2]

(***************************************************************************)
(* ImageProcessor: geometric operations and unit conversion                *)
(***************************************************************************)

\* the colour of the pixel in column x, row y of the image
PixelAt(image, x, y) ==
    image.px[(y \div image.cell) * image.w + (x \div image.cell) + 1]

\* a start or stop i of a slice over an axis of length n: a negative one
\* counts from the end, and both are cut to 0..n
SliceIndex(i, n) == IF i < 0 THEN Max2(i + n, 0) ELSE Min2(i, n)

\* image[y1:y2, x1:x2]: a view, whose pixels are memory of the image sliced;
\* base is the place of its first pixel in that memory. A buffer with no
\* base owns its memory.
Slice(image, y1, y2, x1, x2) ==
    LET top == SliceIndex(y1, Height(image))
        left == SliceIndex(x1, Width(image))
        rows == Max2(0, SliceIndex(y2, Height(image)) - top)
        cols == Max2(0, SliceIndex(x2, Width(image)) - left)
    IN  [h |-> rows, w |-> cols, cell |-> 1,
         px |-> [i \in 1..(rows * cols) |->
                    PixelAt(image, left + ((i - 1) % cols),
                            top + ((i - 1) \div cols))],
         base |-> [top |-> top, left |-> left]]

\* image[y1:y2, x1:x2].copy()
SliceCopy(image, y1, y2, x1, x2) == Copy(Slice(image, y1, y2, x1, x2))

\* mutant: the width and height taken as given
crop_image_unclamped(image, x, y, width, height) ==
    LET h == Height(image)
        w == Width(image)
        x1 == Max2(0, Min2(x, w - 1))
        y1 == Max2(0, Min2(y, h - 1))
    IN  SliceCopy(image, y1, y1 + height, x1, x1 + width)

\* ImageProcessor.crop_image
crop_image(image, x, y, width, height) ==
    LET h == Height(image)
        w == Width(image)
        x1 == Max2(0, Min2(x, w - 1))
        y1 == Max2(0, Min2(y, h - 1))
        width1 == Max2(1, Min2(width, w - x1))
        height1 == Max2(1, Min2(height, h - y1))
    IN  SliceCopy(image, y1, y1 + height1, x1, x1 + width1)

\* what a failed call raises instead of returning
ZeroDivisionError == [raised |-> "ZeroDivisionError"]
Cv2Error == [raised |-> "cv2.error"]

\* the keyword arguments of resize_image that are not None
ResizeKeys == {"width", "height", "scale_percent"}

\* the new_width and new_height of resize_image before the minimum of 1 is
\* applied, the quotients taken as int() takes them, toward zero; "copy"
\* when no size is given, "raise" when a division by zero stops the call
ResizeTarget(image, params, maintain_aspect) ==
    LET h == Height(image)
        w == Width(image)
        Dims(nw, nh) == [kind |-> "dims", w |-> nw, h |-> nh]
        Stop == [kind |-> "raise"]
    IN  IF "scale_percent" \in DOMAIN params
        THEN Dims(TruncDiv(w * params.scale_percent, 100),
                  TruncDiv(h * params.scale_percent, 100))
        ELSE IF "width" \in DOMAIN params /\ "height" \in DOMAIN params
        THEN LET width == params.width
                 height == params.height
                 \* width / height > w / h, for h > 0
                 wider == IF height > 0 THEN width * h > w * height
                                        ELSE width * h < w * height
             IN  IF ~maintain_aspect THEN Dims(width, height)
                 ELSE IF h = 0 \/ height = 0 THEN Stop
                 ELSE IF wider THEN Dims(TruncDiv(height * w, h), height)
                 ELSE IF w = 0 THEN Stop
                 ELSE Dims(width, TruncDiv(width * h, w))
        ELSE IF "width" \in DOMAIN params
        THEN IF ~maintain_aspect THEN Dims(params.width, h)
             ELSE IF w = 0 THEN Stop
             ELSE Dims(params.width, TruncDiv(h * params.width, w))
        ELSE IF "height" \in DOMAIN params
        THEN IF ~maintain_aspect THEN Dims(w, params.height)
             ELSE IF h = 0 THEN Stop
             ELSE Dims(TruncDiv(w * params.height, h), params.height)
        ELSE [kind |-> "copy"]

\* the interpolation resize_image asks of cv2.resize
Interpolation(image, new_width, new_height) ==
    IF new_width < Width(image) \/ new_height < Height(image)
    THEN "INTER_AREA" ELSE "INTER_CUBIC"

\* cv2.resize(image, (new_width, new_height)): a new array of that size, an
\* error for an empty image. The library computes each pixel from the source
\* pixels under it; pick says which of them stands for the result, the
\* first (0) or the last (1). A resize to the same size gives the same pixels.
cv2_resize(image, new_width, new_height, pick) ==
    LET h == Height(image)
        w == Width(image)
        At(k, n, m) == IF pick = 0 THEN (k * n) \div m
                                   ELSE ((k + 1) * n - 1) \div m
    IN  IF h = 0 \/ w = 0 THEN Cv2Error
        ELSE [h |-> new_height, w |-> new_width, cell |-> 1,
              px |-> [i \in 1..(new_width * new_height) |->
                         PixelAt(image, At((i - 1) % new_width, w, new_width),
                                 At((i - 1) \div new_width, h, new_height))]]

\* mutant: scale_percent looked at last, after width and height
resize_image_scale_last(image, params, maintain_aspect, pick) ==
    LET sized == DOMAIN params \cap {"width", "height"}
        used == IF sized = {} THEN params ELSE [k \in sized |-> params[k]]
        target == ResizeTarget(image, used, maintain_aspect)
    IN  IF target.kind = "copy" THEN Copy(image)
        ELSE IF target.kind = "raise" THEN ZeroDivisionError
        ELSE cv2_resize(image, Max2(1, target.w), Max2(1, target.h), pick)

\* mutant: the sizes handed to cv2.resize as they were resolved
resize_image_no_minimum(image, params, maintain_aspect, pick) ==
    LET target == ResizeTarget(image, params, maintain_aspect)
    IN  IF target.kind = "copy" THEN Copy(image)
        ELSE IF target.kind = "raise" THEN ZeroDivisionError
        ELSE IF target.w < 1 \/ target.h < 1 THEN Cv2Error
        ELSE cv2_resize(image, target.w, target.h, pick)

\* ImageProcessor.resize_image
resize_image(image, params, maintain_aspect, pick) ==
    LET target == ResizeTarget(image, params, maintain_aspect)
    IN  IF target.kind = "copy" THEN Copy(image)
        ELSE IF target.kind = "raise" THEN ZeroDivisionError
        ELSE cv2_resize(image, Max2(1, target.w), Max2(1, target.h), pick)

\* largest height and width of the images cropped and resized
MaxSide == 3

\* an h x w image whose pixels all differ
GridImage(hh, ww) ==
    [h |-> hh, w |-> ww, cell |-> 1,
     px |-> [i \in 1..(hh * ww) |-> <<i, 2 * i, 3 * i>>]]

\* the images handed in, an empty buffer (a side of 0) among them
GeomImages == {GridImage(hh, ww) : hh, ww \in 0..MaxSide}

\* coordinates and sizes of a crop rectangle
CropArgs == {-5, -1, 0, 1, 2, MaxSide, MaxSide + 1, 100000}

GeomInit ==
    /\ source \in GeomImages
    /\ reference = NoImage
    /\ found = NoContours
    /\ given = source
    /\ op = "none"
    /\ args = <<>>
    /\ result = None
    /\ shell = NoShell

CropImage ==
    /\ op = "none"
    /\ \E x, y, width, height \in CropArgs :
          Call("crop_image", <<x, y, width, height>>,
               crop_image(source, x, y, width, height))

\* widths and heights asked of a resize
SizeArgs == {-1, 0, 1, 2, 5}

\* scale percentages asked of a resize
ScaleArgs == {-50, 0, 10, 50, 100, 150, 200}

\* the keyword arguments given to a resize, any of them left out
ResizeParams ==
    UNION {{f \in [D -> SizeArgs \cup ScaleArgs] :
               \A k \in D : f[k] \in (IF k = "scale_percent" THEN ScaleArgs
                                                              ELSE SizeArgs)} :
           D \in SUBSET ResizeKeys}

ResizeImage ==
    /\ op = "none"
    /\ \E params \in ResizeParams, maintain_aspect \in BOOLEAN, pick \in 0..1 :
          Call("resize_image", <<params, maintain_aspect, pick>>,
               resize_image(source, params, maintain_aspect, pick))

\* the colour a caller writes into a buffer it holds
Ink == <<255, 0, 255>>

\* the place in the memory of the image sliced of pixel i of a view
BaseIndex(view, image, i) ==
    (view.base.top + ((i - 1) \div view.w)) * image.w
        + view.base.left + ((i - 1) % view.w) + 1

\* the pixels of a view that lie at place j of the memory it was sliced from
ViewIndices(view, image, j) ==
    {i \in 1..Len(view.px) : BaseIndex(view, image, i) = j}

\* the caller writes a pixel of the buffer a call returned; the write lands
\* in the source too when the buffer is a view of it
WriteResult ==
    /\ op \in {"crop_image", "resize_image", "apply_adjustments"}
    /\ IsBuffer(result)
    /\ \E i \in {1, Len(result.px)} :
          /\ i >= 1
          /\ result' = [result EXCEPT !.px[i] = Ink]
          /\ source' = IF "base" \in DOMAIN result
                        THEN [source EXCEPT
                                 !.px[BaseIndex(result, source, i)] = Ink]
                        ELSE source
          /\ args' = <<i>>
    /\ op' = "write_result"
    /\ UNCHANGED <<reference, found, given, shell>>

\* the caller writes a pixel of the source after the call; the write shows
\* in the returned buffer too when that is a view of the source
WriteSource ==
    /\ op \in {"crop_image", "resize_image", "apply_adjustments"}
    /\ IsBuffer(result)
    /\ \E j \in {1, Len(source.px)} :
          /\ j >= 1
          /\ source' = [source EXCEPT !.px[j] = Ink]
          /\ result' = IF "base" \in DOMAIN result
                        THEN [result EXCEPT !.px =
                                 [i \in 1..Len(result.px) |->
                                     IF i \in ViewIndices(result, source, j)
                                     THEN Ink ELSE result.px[i]]]
                        ELSE result
          /\ args' = <<j>>
    /\ op' = "write_source"
    /\ UNCHANGED <<reference, found, given, shell>>

GeomNext ==
    CropImage \/ ResizeImage \/ ApplyAdjustments \/ WriteResult \/ WriteSource

SpecGeom == GeomInit /\ [][GeomNext]_vars

Clamp(v, lo, hi) == IF v < lo THEN lo ELSE IF v > hi THEN hi ELSE v

\* C12: for an image of width >= 1 and height >= 1 and any integers x, y, w,
\* h, crop returns the sub-region at x' = clamp(x, 0, width-1),
\* y' = clamp(y, 0, height-1) of size clamp(w, 1, width-x') by
\* clamp(h, 1, height-y'); it lies within the source and is at least 1 x 1.
C12_CropClamped ==
    (op = "crop_image" /\ given.w >= 1 /\ given.h >= 1) =>
        LET x1 == Clamp(args[1], 0, given.w - 1)
            y1 == Clamp(args[2], 0, given.h - 1)
            w1 == Clamp(args[3], 1, given.w - x1)
            h1 == Clamp(args[4], 1, given.h - y1)
        IN  /\ result.w = w1 /\ result.h = h1 /\ result.cell = 1
            /\ w1 >= 1 /\ h1 >= 1
            /\ x1 >= 0 /\ y1 >= 0
            /\ x1 + w1 <= given.w /\ y1 + h1 <= given.h
            /\ Len(result.px) = w1 * h1
            /\ \A row \in 0..(h1 - 1), col \in 0..(w1 - 1) :
                  result.px[row * w1 + col + 1]
                      = given.px[(y1 + row) * given.w + x1 + col + 1]

\* C12 witness: crop(img, -5, -5, 100000, 100000) on an image of several
\* rows and columns has returned the whole image
C12_Witness ==
    /\ op = "crop_image"
    /\ args = <<-5, -5, 100000, 100000>>
    /\ given.w >= 2 /\ given.h >= 2
    /\ result = given

\* the calls whose result the caller may go on to write into
GeomOps == {"crop_image", "resize_image", "apply_adjustments"}

\* C13: crop, resize with no parameters and apply_adjustments with neutral
\* parameters, as every other call, return a buffer that owns its memory, so
\* a later write to the returned buffer leaves the source as it was and a
\* later write to the source leaves the returned buffer as it was.
C13_NoAlias ==
    /\ []((op \in GeomOps /\ IsBuffer(result)) => "base" \notin DOMAIN result)
    /\ [][/\ op' = "write_result" => source' = source
          /\ op' = "write_source" => result' = result]_vars

\* C13 witness: a call has returned all the pixels of a source of several
\* pixels, the caller has then written into the source, and the returned
\* buffer still holds the pixels handed in
C13_Witness ==
    /\ op = "write_source"
    /\ Len(given.px) >= 2
    /\ source # given
    /\ result = given

\* a target dimension as the resampler gets it
AtLeast1(v) == Max2(1, v)

\* C14: for a non-empty source, resize takes scale_percent first (each side
\* floor(side * scale / 100), so 100 gives the input's dimensions, whatever
\* width and height say); else width and height together (with
\* maintain_aspect a box of the source's aspect ratio that fills one side of
\* width x height and exceeds neither, without it both exactly); else the
\* one given (the other derived by the aspect ratio with maintain_aspect,
\* the source's own without); else an unmodified copy. Each side is then
\* raised to 1.
C14_ResizePriority ==
    (op = "resize_image" /\ given.w >= 1 /\ given.h >= 1 /\ IsBuffer(result)) =>
        LET p == args[1]
            keep == args[2]
            W == given.w
            H == given.h
            has(k) == k \in DOMAIN p
        IN  IF has("scale_percent")
            THEN /\ result.w = AtLeast1(FloorDiv(W * p.scale_percent, 100))
                 /\ result.h = AtLeast1(FloorDiv(H * p.scale_percent, 100))
                 /\ p.scale_percent = 100 => (result.w = W /\ result.h = H)
            ELSE IF has("width") /\ has("height")
            THEN IF ~keep
                 THEN result.w = AtLeast1(p.width) /\ result.h = AtLeast1(p.height)
                 ELSE (p.width >= 1 /\ p.height >= 1) =>
                        /\ result.w <= p.width /\ result.h <= p.height
                        /\ \/ /\ result.h = p.height
                              /\ result.w = AtLeast1(FloorDiv(p.height * W, H))
                           \/ /\ result.w = p.width
                              /\ result.h = AtLeast1(FloorDiv(p.width * H, W))
            ELSE IF has("width")
            THEN /\ result.w = AtLeast1(p.width)
                 /\ result.h = IF keep THEN AtLeast1(FloorDiv(H * p.width, W))
                                       ELSE H
            ELSE IF has("height")
            THEN /\ result.h = AtLeast1(p.height)
                 /\ result.w = IF keep THEN AtLeast1(FloorDiv(W * p.height, H))
                                       ELSE W
            ELSE result = given

\* C14 witness: a wide source has been resized into a 5 x 5 box with
\* maintain_aspect while scale_percent = 100 was given too, and came back
\* with its own dimensions
C14_Witness ==
    /\ op = "resize_image"
    /\ DOMAIN args[1] = ResizeKeys
    /\ args[1].scale_percent = 100 /\ args[1].width = 5 /\ args[1].height = 5
    /\ args[2]
    /\ given.w > given.h /\ given.h >= 2
    /\ result.w = given.w /\ result.h = given.h

\* C15: for a non-empty source and at least one of width, height and
\* scale_percent given, zero, negative or rounding down to 0 as they may be,
\* every call that reaches the resampler hands it a width and a height of at
\* least 1: the resampler never fails, and what it returns has both sides >= 1.
C15_AtLeastOnePixel ==
    (/\ op = "resize_image" /\ given.w >= 1 /\ given.h >= 1
     /\ DOMAIN args[1] # {}) =>
        /\ result # Cv2Error
        /\ IsBuffer(result) =>
              /\ result.w >= 1 /\ result.h >= 1
              /\ Len(result.px) = result.w * result.h

\* C15 witness: a source of several pixels has been resized to width -1 and
\* height 0 without maintain_aspect, and one pixel has come back
C15_Witness ==
    /\ op = "resize_image"
    /\ given.w >= 2 /\ given.h >= 2
    /\ args[1] = [width |-> -1, height |-> 0]
    /\ ~args[2]
    /\ IsBuffer(result) /\ result.w = 1 /\ result.h = 1

\* an empty buffer, a crop rectangle of width or height 0, or a resize
\* target of zero or negative size
Degenerate ==
    \/ given.w = 0 \/ given.h = 0
    \/ op = "crop_image" /\ (args[3] = 0 \/ args[4] = 0)
    \/ op = "resize_image" /\ \E k \in DOMAIN args[1] : args[1][k] <= 0

\* C16: given a degenerate input, crop and resize fail with an error; they
\* return no buffer, so neither a zero-size one nor one of a rectangle or
\* size other than the one asked for.
C16_FailFast ==
    (op \in {"crop_image", "resize_image"} /\ Degenerate) => ~IsBuffer(result)

\* C16 divergence: a crop of width 0 has returned a buffer one pixel wide, a
\* crop of an empty buffer a zero-size buffer, or a resize to a size below 1
\* a buffer of size 1
C16_Divergence ==
    /\ IsBuffer(result)
    /\ \/ /\ op = "crop_image" /\ given.w >= 1 /\ given.h >= 1
          /\ args[3] = 0 /\ result.w = 1
       \/ /\ op = "crop_image" /\ given.h = 0 /\ Len(result.px) = 0
       \/ /\ op = "resize_image" /\ given.w >= 1 /\ given.h >= 1
          /\ args[1] = [width |-> 0] /\ result.w = 1

\* ---------------------------------------------------------------------
\* Unit conversion. A length in cm is given in hundredths (254 is 2.54 cm),
\* a quotient is kept as the pair <<numerator, denominator>>.

\* hundredths of a cm in an inch
CmPerInch100 == 254

\* ImageProcessor.cm_to_pixels: inches = cm / 2.54; int(inches * dpi)
cm_to_pixels(cm100, dpi) ==
    LET inches == <<cm100, CmPerInch100>>
    IN  TruncDiv(inches[1] * dpi, inches[2])

\* ImageProcessor.pixels_to_cm: inches = pixels / dpi; inches * 2.54, in cm
pixels_to_cm(pixels, dpi) ==
    LET inches == <<pixels, dpi>>
    IN  <<inches[1] * CmPerInch100, inches[2] * 100>>

\* the longest length converted, in hundredths of a cm
MaxCm100 == 1200

\* the resolutions converted at
Dpis == {72, 96, 150, 300, 600}

\* the pixel counts converted back
PixelCounts == {0, 1, 150, 300, 590, 591}

UnitsInit ==
    /\ source = NoImage
    /\ reference = NoImage
    /\ found = NoContours
    /\ given = source
    /\ op = "none"
    /\ args = <<>>
    /\ result = None
    /\ shell = NoShell

CmToPixels ==
    /\ op = "none"
    /\ \E cm100 \in 0..MaxCm100, dpi \in Dpis :
          Call("cm_to_pixels", <<cm100, dpi>>, cm_to_pixels(cm100, dpi))

PixelsToCm ==
    /\ op = "none"
    /\ \E pixels \in PixelCounts, dpi \in Dpis :
          Call("pixels_to_cm", <<pixels, dpi>>, pixels_to_cm(pixels, dpi))

UnitsNext == CmToPixels \/ PixelsToCm

SpecUnits == UnitsInit /\ [][UnitsNext]_vars

\* C17: cm_to_pixels(cm, dpi) is cm / 2.54 * dpi rounded to the nearest
\* integer for every cm >= 0 and dpi > 0, so 5 cm at 300 dpi gives 591 and
\* 2.54 cm at 300 dpi gives 300.
C17_RoundsToNearest ==
    op = "cm_to_pixels" =>
        /\ result = RoundDiv(args[1] * args[2], CmPerInch100)
        /\ args = <<500, 300>> => result = 591
        /\ args = <<254, 300>> => result = 300

\* C17 divergence: 5 cm at 300 dpi, 590.55 pixels, has come back as 590
C17_Divergence ==
    op = "cm_to_pixels" /\ args = <<500, 300>> /\ result = 590

\* what holds of cm_to_pixels: the quotient is cut to the integer below it,
\* which for a whole number of pixels (2.54 cm at 300 dpi) is the quotient
C17_RoundsDown ==
    op = "cm_to_pixels" =>
        /\ result = FloorDiv(args[1] * args[2], CmPerInch100)
        /\ args = <<254, 300>> => result = 300

(***************************************************************************)
(* ColorMatcher.color_transfer on gradients. cv2.cvtColor is not computed: *)
(* the conversion to Lab and the one back are inputs, each one of two      *)
(* curves that send a gray to a gray and a brighter gray to a brighter one.*)
(***************************************************************************)

\* most rows of a gradient
MaxRows == 3

\* a gray image whose row r (from 0) has the level r * step
Gradient(rows, cols, step) ==
    [h |-> rows, w |-> cols, cell |-> 1,
     px |-> [i \in 1..(rows * cols) |->
                LET g == ((i - 1) \div cols) * step IN <<g, g, g>>]]

\* an image of one colour
Uniform(rows, cols, colour) ==
    [h |-> rows, w |-> cols, cell |-> 1,
     px |-> [i \in 1..(rows * cols) |-> colour]]

TransferSources ==
    {Gradient(rows, cols, step) : rows \in 2..MaxRows, cols \in 1..2,
                                  step \in {2, 60}}
        \cup {Uniform(2, 1, <<MidGray, MidGray, MidGray>>),
              Uniform(1, 2, <<10, 200, 250>>),
              [h |-> 2, w |-> 1, cell |-> 1,
               px |-> <<<<10, 200, 250>>, <<MaxVal, 1, 0>>>>]}

TransferReferences ==
    {Uniform(2, 2, <<MidGray, MidGray, MidGray>>),
     Uniform(1, 1, <<10, 200, 250>>),
     Gradient(2, 1, 200),
     [h |-> 2, w |-> 2, cell |-> 1,
      px |-> <<<<0, 0, 0>>, <<10, 200, 250>>, <<10, 200, 250>>,
               <<MaxVal, 1, 0>>>>]}

\* a lightness curve: the level itself (0) or a curve that lifts the
\* shadows (1)
Curve(v, k) == IF k = 0 THEN v ELSE MaxVal - ((MaxVal - v) * (MaxVal - v)) \div MaxVal

\* the curve back: the level itself (0) or a curve that deepens the shadows
CurveBack(v, k) == IF k = 0 THEN v ELSE (v * v) \div MaxVal

\* a stand-in for cv2.COLOR_BGR2LAB on <<b, g, r>>: lightness from the
\* weighted sum, a from red against green, b from green against blue
BgrToLab(c, k) ==
    <<Curve((c[1] + 2 * c[2] + c[3]) \div 4, k),
      Clip(MidGray + (c[3] - c[2]) \div 2, 0, MaxVal),
      Clip(MidGray + (c[2] - c[1]) \div 2, 0, MaxVal)>>

\* a stand-in for cv2.COLOR_LAB2BGR
LabToBgr(lab, k) ==
    LET g == CurveBack(lab[1], k)
    IN  <<Clip(g - (lab[3] - MidGray), 0, MaxVal),
          Clip(g - (lab[2] - MidGray) \div 2, 0, MaxVal),
          Clip(g + (lab[2] - MidGray), 0, MaxVal)>>

TransferInit ==
    /\ source \in TransferSources
    /\ reference \in TransferReferences
    /\ found = NoContours
    /\ given = source
    /\ op = "none"
    /\ args = <<>>
    /\ result = None
    /\ shell = NoShell

TransferColors ==
    /\ op = "none"
    /\ \E k \in 0..1, back \in 0..1 :
          LET to_lab == [c \in Colours(source) \cup Colours(reference) |->
                            BgrToLab(c, k)]
              result_lab == TransferLab(cvtColor(source, to_lab),
                                        cvtColor(reference, to_lab))
              to_bgr == [lab \in Colours(result_lab) |-> LabToBgr(lab, back)]
          IN  Call("color_transfer", <<to_lab, to_bgr>>,
                   color_transfer(source, reference, to_lab, to_bgr))

TransferNext == TransferColors

SpecTransfer == TransferInit /\ [][TransferNext]_vars

\* the values of channel c of an image
ChannelValues(image, c) == {image.px[i][c] : i \in 1..Len(image.px)}

\* v is (x - src_mean) * (ref_std / src_std) + ref_mean of channel c,
\* clipped to [0, 255] and cut to an integer
IsRemapped(v, x, source_lab, reference_lab, c) ==
    LET src_n == Len(source_lab.px)
        ref_n == Len(reference_lab.px)
        dev == src_n * x - SumOfChannel(source_lab.px, c, src_n)
        ref_sum == SumOfChannel(reference_lab.px, c, ref_n)
        Reaches(level) ==
            AtMostRemapped(level, dev, Spread(source_lab, c),
                           Spread(reference_lab, c), ref_sum, ref_n)
    IN  /\ v \in 0..MaxVal
        /\ v > 0 => Reaches(v)
        /\ v < MaxVal => ~Reaches(v + 1)

RowTotal(image, r) ==
    LET Sum[k \in 0..image.w] ==
            IF k = 0 THEN 0
            ELSE LET p == image.px[(r - 1) * image.w + k]
                 IN  Sum[k - 1] + p[1] + p[2] + p[3]
    IN  Sum[image.w]

\* every row is brighter than the row above it
BrighterDownward(image) ==
    /\ image.h >= 2
    /\ \A r \in 1..(image.h - 1) : RowTotal(image, r) < RowTotal(image, r + 1)

\* C19: for a source whose rows get brighter from top to bottom and any
\* reference, a uniform one included, the mean of the top row of the result
\* of color_transfer is strictly lower than the mean of its bottom row.
C19_StructureKept ==
    (op = "color_transfer" /\ BrighterDownward(given)) =>
        RowTotal(result, 1) < RowTotal(result, result.h)

\* C19 divergence: a gradient has been transferred to a reference of one
\* colour and every pixel of the result has the same colour
C19_Divergence ==
    /\ op = "color_transfer"
    /\ BrighterDownward(given)
    /\ Cardinality(Colours(reference)) = 1
    /\ Cardinality(Colours(result)) = 1

\* what holds of a gradient: the rows of the result never get darker
\* downward, and a reference of one colour always gives one colour
C19_OrderKept ==
    (op = "color_transfer" /\ BrighterDownward(given)) =>
        /\ \A r \in 1..(result.h - 1) :
              RowTotal(result, r) <= RowTotal(result, r + 1)
        /\ Cardinality(Colours(reference)) = 1
              => Cardinality(Colours(result)) = 1

(***************************************************************************)
(* MainWindow: two image panels "A" and "B", each with its slider panel,   *)
(* and the crop mode. A panel is                                           *)
(*   [original_image, processed_image |-> an image or None,                *)
(*    sliders |-> the values of its three sliders,                         *)
(*    crop_mode |-> whether its crop overlay is shown].                    *)
(* Every action is one user event with all the signal handlers it          *)
(* triggers. op is the last event, args what the user gave it, and result  *)
(* maps each panel the event committed to the image the core returned.     *)
(***************************************************************************)

\* most user events in one session
MaxEvents == 5

Panels == {"A", "B"}

SliderKeys == {"temperature", "tint", "brightness"}

\* SliderPanel: every slider starts at its default, 0
DefaultSliders == [k \in SliderKeys |-> 0]

\* where the user may leave a slider
SliderStops == {0, 50}

\* the pictures the user has on disk, as cv2.imdecode gives them
Files ==
    {[h |-> 1, w |-> 2, cell |-> 1, px |-> <<<<0, 70, 200>>, <<70, 70, MaxVal>>>>],
     [h |-> 2, w |-> 1, cell |-> 1, px |-> <<<<10, 200, 250>>, <<MaxVal, 1, 0>>>>]}

\* the rectangles CropOverlay.get_crop_region computes on a click of the
\* confirm button (x, y, w, h); the last is a selection narrower than one
\* pixel of the image
CropRects == {<<0, 0, 1, 1>>, <<1, 1, 5, 5>>, <<0, 0, 0, 1>>}

\* the width and height the resolution dialog returns for a panel, None for
\* a panel left as it is
DialogSizes == {None, [width |-> 2, height |-> 2]}

\* MainWindow._on_slider_a_changed / _on_slider_b_changed on a
\* valueChanged of one slider; setValue to the value a slider has emits
\* nothing
SetSlider(panel, key, value) ==
    IF panel.sliders[key] = value THEN panel
    ELSE LET values == [panel.sliders EXCEPT ![key] = value]
         IN  [panel EXCEPT
                 !.sliders = values,
                 !.processed_image =
                     IF panel.original_image # None
                     THEN Copy(apply_adjustments(panel.original_image, values))
                     ELSE @]

\* SliderPanel.reset: the three sliders set to 0 one after the other
ResetSliders(panel) ==
    SetSlider(SetSlider(SetSlider(panel, "temperature", 0), "tint", 0),
              "brightness", 0)

\* ImagePanel.load_image
LoadImage(panel, image) ==
    [panel EXCEPT !.original_image = Copy(image),
                  !.processed_image = Copy(image)]

\* mutant: the buttons left disabled
EndCropModeButtonsOff(window) ==
    [window EXCEPT
        !.panel = IF window.crop_target_panel \in Panels
                  THEN [@ EXCEPT ![window.crop_target_panel].crop_mode = FALSE]
                  ELSE @,
        !.crop_control_panel = IF window.crop_target_panel \in Panels
                               THEN FALSE ELSE @,
        !.crop_mode_active = FALSE,
        !.crop_target_panel = "None"]

\* mutant: the result shown but not taken as the new original
CommitProcessedOnly(panel, image) ==
    ResetSliders([panel EXCEPT !.processed_image = Copy(image)])

\* original_image = result.copy(); set_processed_image(result);
\* slider_panel.reset()
Commit(panel, image) ==
    ResetSliders([panel EXCEPT !.original_image = Copy(image),
                               !.processed_image = Copy(image)])

\* MainWindow._end_crop_mode
EndCropMode(window) ==
    [window EXCEPT
        !.panel = IF window.crop_target_panel \in Panels
                  THEN [@ EXCEPT ![window.crop_target_panel].crop_mode = FALSE]
                  ELSE @,
        !.crop_control_panel = IF window.crop_target_panel \in Panels
                               THEN FALSE ELSE @,
        !.crop_mode_active = FALSE,
        !.crop_target_panel = "None",
        !.buttons_enabled = TRUE]

\* an event handled: the window after it, and what the core returned
Handled(name, a, r, window) ==
    /\ shell.events < MaxEvents
    /\ op' = name
    /\ args' = a
    /\ result' = r
    /\ shell' = [window EXCEPT !.events = shell.events + 1]
    /\ UNCHANGED <<source, reference, found, given>>

\* MainWindow.__init__
ShellInit ==
    /\ source = NoImage
    /\ reference = NoImage
    /\ found = NoContours
    /\ given = source
    /\ op = "none"
    /\ args = <<>>
    /\ result = None
    /\ shell = [panel |-> [p \in Panels |->
                              [original_image |-> None,
                               processed_image |-> None,
                               sliders |-> DefaultSliders,
                               crop_mode |-> FALSE]],
                crop_mode_active |-> FALSE,
                crop_target_panel |-> "None",
                crop_control_panel |-> FALSE,
                buttons_enabled |-> TRUE,
                events |-> 0]

\* MainWindow._open_image with a file chosen and decoded
OpenImage ==
    /\ shell.buttons_enabled
    /\ \E p \in Panels, file \in Files :
          Handled("open_image", <<p, file>>, None,
                  [shell EXCEPT
                      !.panel[p] = ResetSliders(LoadImage(@, file))])

\* ImagePanel.dropEvent with a .jpg that decodes
DropImage ==
    \E p \in Panels, file \in Files :
        Handled("drop_image", <<p, file>>, None,
                [shell EXCEPT !.panel[p] = LoadImage(@, file)])

\* the user moves one slider
SliderChanged ==
    \E p \in Panels, key \in SliderKeys, value \in SliderStops :
        /\ shell.panel[p].sliders[key] # value
        /\ Handled("slider_changed", <<p, key, value>>, None,
                   [shell EXCEPT !.panel[p] = SetSlider(@, key, value)])

\* the reset button of a slider panel
SliderReset ==
    \E p \in Panels :
        /\ shell.panel[p].sliders # DefaultSliders
        /\ Handled("slider_reset", <<p>>, None,
                   [shell EXCEPT !.panel[p] = ResetSliders(@)])

\* MainWindow._start_crop
StartCrop ==
    /\ shell.buttons_enabled
    /\ \E p \in Panels :
          /\ shell.panel[p].processed_image # None
          /\ Handled("start_crop", <<p>>, None,
                     IF shell.crop_mode_active THEN EndCropMode(shell)
                     ELSE [shell EXCEPT !.panel[p].crop_mode = TRUE,
                                        !.crop_mode_active = TRUE,
                                        !.crop_target_panel = p,
                                        !.crop_control_panel = TRUE,
                                        !.buttons_enabled = FALSE])

\* the confirm button of the crop control panel:
\* MainWindow._on_crop_confirm_clicked, CropOverlay.confirm_crop, which
\* emits crop_confirmed only for a selection with w > 0 and h > 0, then
\* ImagePanel._on_crop_confirmed, MainWindow._on_crop_confirmed
CropConfirmed ==
    /\ shell.crop_control_panel
    /\ shell.crop_target_panel \in Panels
    /\ \E rect \in CropRects :
          LET p == shell.crop_target_panel
              stopped == [shell EXCEPT !.panel[p].crop_mode = FALSE]
              image == stopped.panel[p].processed_image
              cropped == crop_image(image, rect[1], rect[2], rect[3], rect[4])
          IN  /\ shell.panel[p].crop_mode
              /\ IF ~(rect[3] > 0 /\ rect[4] > 0)
                 THEN Handled("crop_confirm_clicked", <<p, rect>>, None, shell)
                 ELSE IF image # None
                 THEN Handled("crop_confirmed", <<p, rect>>, p :> cropped,
                              EndCropMode(
                                  [stopped EXCEPT
                                      !.panel[p] = Commit(@, cropped)]))
                 ELSE Handled("crop_confirmed", <<p, rect>>, <<>>,
                              EndCropMode(stopped))

\* the cancel button of the crop control panel
CropCancelled ==
    /\ shell.crop_control_panel
    /\ Handled("crop_cancelled", <<>>, None, EndCropMode(shell))

\* one panel's part of MainWindow._open_resolution_dialog
ResizedPanel(panel, size, pick) ==
    IF size # None /\ panel.processed_image # None
    THEN Commit(panel, resize_image(panel.processed_image, size, FALSE, pick))
    ELSE panel

\* MainWindow._open_resolution_dialog with the dialog accepted
ResolutionDialog ==
    /\ shell.buttons_enabled
    /\ \E p \in Panels : shell.panel[p].processed_image # None
    /\ \E sizes \in [Panels -> DialogSizes], pick \in 0..1 :
          LET resized == {p \in Panels : /\ sizes[p] # None
                                         /\ shell.panel[p].processed_image # None}
          IN  Handled("resize", <<sizes, pick>>,
                      [p \in resized |->
                          resize_image(shell.panel[p].processed_image,
                                       sizes[p], FALSE, pick)],
                      [shell EXCEPT
                          !.panel = [p \in Panels |->
                                        ResizedPanel(@[p], sizes[p], pick)]])

\* MainWindow._auto_match
AutoMatch ==
    /\ shell.buttons_enabled
    /\ shell.panel["A"].processed_image # None
    /\ shell.panel["B"].processed_image # None
    /\ LET matched == match_histograms(shell.panel["B"].processed_image,
                                       shell.panel["A"].processed_image)
       IN  Handled("auto_match", <<>>, "B" :> matched,
                   [shell EXCEPT !.panel["B"] = Commit(@, matched)])

ShellNext ==
    \/ OpenImage \/ DropImage \/ SliderChanged \/ SliderReset
    \/ StartCrop \/ CropConfirmed \/ CropCancelled
    \/ ResolutionDialog \/ AutoMatch

SpecShell == ShellInit /\ [][ShellNext]_vars

\* the events that commit a new baseline
CommitEvents == {"crop_confirmed", "resize", "auto_match"}

\* what the core returns for the event just handled on panel p, computed
\* from the window as it was before the event
Committed(p) ==
    LET before == shell.panel[p].processed_image
    IN  CASE op' = "crop_confirmed" ->
                 crop_image(before, args'[2][1], args'[2][2], args'[2][3],
                            args'[2][4])
          [] op' = "resize" ->
                 resize_image(before, args'[1][p], FALSE, args'[2])
          [] op' = "auto_match" ->
                 match_histograms(shell.panel["B"].processed_image,
                                  shell.panel["A"].processed_image)

\* the panels the event just handled commits to
Affected ==
    CASE op' = "crop_confirmed" -> {args'[1]}
      [] op' = "resize" ->
             {p \in Panels : /\ args'[1][p] # None
                             /\ shell.panel[p].processed_image # None}
      [] op' = "auto_match" -> {"B"}

\* C20: a confirmed crop, an applied resize and an auto-match each commit a
\* new baseline for the panel they act on: after the event that panel's
\* original image and processed image both equal what the operation
\* returned for the processed image of before, and its three sliders are 0;
\* and every slider change leaves the original as it is and computes the
\* processed image from it, so after a commit from the new original.
C20_CommitsBaseline ==
    [][/\ op' \in CommitEvents =>
             /\ DOMAIN result' = Affected
             /\ \A p \in Affected :
                   /\ result'[p] = Committed(p)
                   /\ shell'.panel[p].original_image = Committed(p)
                   /\ shell'.panel[p].processed_image = Committed(p)
                   /\ shell'.panel[p].sliders = DefaultSliders
       /\ op' \in {"slider_changed", "slider_reset"} =>
             LET p == args'[1]
                 original == shell.panel[p].original_image
             IN  /\ shell'.panel[p].original_image = original
                 /\ original # None =>
                       shell'.panel[p].processed_image
                           = apply_adjustments(original,
                                               shell'.panel[p].sliders)]_vars

\* C20 witness: a crop has been confirmed on a panel whose sliders were not
\* all 0 (the crop is not that of a file as loaded); the panel's original
\* and processed image are the crop and its sliders are 0
C20_Witness ==
    /\ op = "crop_confirmed"
    /\ DOMAIN result = {args[1]}
    /\ LET p == args[1]
           rect == args[2]
       IN  /\ shell.panel[p].original_image = result[p]
           /\ shell.panel[p].processed_image = result[p]
           /\ shell.panel[p].sliders = DefaultSliders
           /\ \A file \in Files :
                 result[p] # crop_image(file, rect[1], rect[2], rect[3],
                                        rect[4])

(***************************************************************************)
(* The lookup table of histogram matching, settled under SpecHist          *)
(***************************************************************************)
\* the level of pixel i of channel c before and after the call
SourceLevel(c, i) == given.px[i][c]

MatchedLevel(c, i) == result.px[i][c]

\* the exact distance of reference level j from the source level of pixel i,
\* from the two cumulative histograms of channel c alone
LevelDiff(c, i, j) ==
    CdfDiff(Cumsum(Channel(given, c)), Cumsum(Channel(reference, c)),
            SourceLevel(c, i), j)

\* the computed distance at level j is less than the one at level k
LevelDiffLess(c, i, j, k) ==
    DiffLess(Cumsum(Channel(given, c)), Cumsum(Channel(reference, c)),
             SourceLevel(c, i), j, k)

\* C21 (as amended): in every channel every pixel is remapped, from the two
\* cumulative histograms of that channel alone, to a reference level whose
\* distance |ref_cdf[j] - src_cdf[i]| is the least, and to the lowest of the
\* levels whose computed float64 distance is the least: every lower level
\* has a greater computed distance.
C21_NearestLevel ==
    op = "match_histograms" =>
        \A c \in 1..3 : \A i \in 1..Len(given.px) :
            /\ \A k \in 0..MaxVal :
                   LevelDiff(c, i, MatchedLevel(c, i)) <= LevelDiff(c, i, k)
            /\ \A k \in 0..(MatchedLevel(c, i) - 1) :
                   LevelDiffLess(c, i, MatchedLevel(c, i), k)

\* a source level halfway between the CDF values 0 and 1 of the reference,
\* remapped to the lower of the two equally distant levels
C21_Witness ==
    /\ op = "match_histograms"
    /\ \E c \in 1..3 : \E i \in 1..Len(given.px) : \E k \in 0..MaxVal :
          /\ k > MatchedLevel(c, i)
          /\ LevelDiff(c, i, k) = LevelDiff(c, i, MatchedLevel(c, i))
          /\ Cumsum(Channel(reference, c))[k]
                 # Cumsum(Channel(reference, c))[MatchedLevel(c, i)]

\* C21 (as claimed): the level chosen is the lowest of the levels at the
\* least distance |ref_cdf[j] - src_cdf[i]|.  Against the reference CDF
\* values 1/3 and 2/3 the source value 1/2 is at distance 1/6 of both, and the
\* float64 distances are 0.16666666666666669 and 0.16666666666666663: the
\* higher level is chosen.
C21_LowestOnTies ==
    op = "match_histograms" =>
        \A c \in 1..3 : \A i \in 1..Len(given.px) :
            /\ \A k \in 0..MaxVal :
                   LevelDiff(c, i, MatchedLevel(c, i)) <= LevelDiff(c, i, k)
            /\ \A k \in 0..(MatchedLevel(c, i) - 1) :
                   LevelDiff(c, i, MatchedLevel(c, i)) < LevelDiff(c, i, k)

(***************************************************************************)
(* The steps of chart detection on one quadrilateral: validation, corner   *)
(* ordering and the patch grid, each called on the 4-point approximation   *)
(* of one contour of a 160 x 240 image.                                    *)
(***************************************************************************)
\* the four vertices of the axis-aligned rectangle whose bounding box is
\* w x h, clockwise from the top-left
Rectangle(x, y, w, h) ==
    <<<<x, y>>, <<x + w - 1, y>>, <<x + w - 1, y + h - 1>>, <<x, y + h - 1>>>>

\* bounding boxes at the four limits of the aspect ratio (2.0, 1.2, 0.5,
\* 0.85), inside the two intervals and outside them
BoxSizes ==
    {<<200, 100>>, <<120, 100>>, <<60, 120>>, <<85, 100>>,
     <<150, 100>>, <<70, 100>>, <<199, 100>>, <<86, 100>>,
     <<100, 100>>, <<225, 90>>, <<60, 150>>}

Orders == {p \in [1..4 -> 1..4] : \A i, j \in 1..4 : p[i] = p[j] => i = j}

\* every rectangle in every vertex order
Rectangles ==
    {[i \in 1..4 |-> Rectangle(10, 5, d[1], d[2])[p[i]]] :
        d \in BoxSizes, p \in Orders}

GridMax == 2

GridPoints == {<<20 + 60 * i, 10 + 40 * j>> : i, j \in 0..GridMax}

\* every four distinct points of a coarse grid, in every order: rectangles,
\* diamonds, skewed and degenerate quadrilaterals
GridQuads ==
    {q \in [1..4 -> GridPoints] : \A i, j \in 1..4 : q[i] = q[j] => i = j}

AsContour(approx) == [area2 |-> ContourArea2(approx), approx |-> approx]

\* the quadrilateral the step is called on
Quad == found.source[1].approx

QuadInit ==
    /\ \E approx \in Rectangles \cup GridQuads :
          /\ found = [source |-> <<AsContour(approx)>>, reference |-> <<>>]
          /\ \/ approx \in Rectangles /\ source \in ChartImages
             \/ approx \in GridQuads /\ source = FlatImage
    /\ reference = source
    /\ given = source
    /\ op = "none"
    /\ args = <<>>
    /\ result = None
    /\ shell = NoShell

ValidateChart ==
    /\ op = "none"
    /\ Call("validate_chart", <<>>, validate_chart(source, Quad))

OrderPoints ==
    /\ op = "none"
    /\ Call("order_points", <<>>, order_points(Quad))

CalculatePatchCenters ==
    /\ op = "none"
    /\ Call("calculate_patch_centers", <<>>, calculate_patch_centers(Quad))

QuadNext == ValidateChart \/ OrderPoints \/ CalculatePatchCenters

SpecQuad == QuadInit /\ [][QuadNext]_vars

\* the bounding box of the quadrilateral and the colour diversity inside it
QuadWidth == BoundingRect(Quad)[3]

QuadHeight == BoundingRect(Quad)[4]

Diverse ==
    LET x == BoundingRect(Quad)[1]
        y == BoundingRect(Quad)[2]
        hsv == cvtColorHSV(given)
    IN  /\ ~HistStdBelow(hsv, 1, 180, MinHistStd, x, y,
                         x + QuadWidth, y + QuadHeight)
        /\ ~HistStdBelow(hsv, 2, MaxVal + 1, MinHistStd, x, y,
                         x + QuadWidth, y + QuadHeight)

\* C22 (as amended): a 4-vertex candidate inside the image passes validation
\* if and only if its bounding-box aspect ratio w/h lies strictly between 1.2
\* and 2.0 or strictly between 0.5 and 0.85 (the four endpoints excluded) and
\* the standard deviations of its hue and saturation histograms are each at
\* least 100.
C22_OpenIntervals ==
    op = "validate_chart" =>
        (result = TRUE <=>
            /\ \/ 12 * QuadHeight < 10 * QuadWidth
                     /\ QuadWidth < 2 * QuadHeight
               \/ QuadHeight < 2 * QuadWidth
                     /\ 100 * QuadWidth < 85 * QuadHeight
            /\ Diverse)

\* a diverse candidate of aspect ratio exactly 2.0 has been rejected
C22_Witness ==
    /\ op = "validate_chart"
    /\ QuadWidth = 2 * QuadHeight
    /\ Diverse
    /\ result = FALSE

\* C22 (as claimed): the endpoints 1.2, 2.0, 0.5 and 0.85 pass too
C22_ClosedIntervals ==
    op = "validate_chart" =>
        (result = TRUE <=>
            /\ \/ 12 * QuadHeight <= 10 * QuadWidth
                     /\ QuadWidth <= 2 * QuadHeight
               \/ QuadHeight <= 2 * QuadWidth
                     /\ 100 * QuadWidth <= 85 * QuadHeight
            /\ Diverse)

\* the corners as _order_points returned them
TopLeft == result[1]

TopRight == result[2]

BottomRight == result[3]

BottomLeft == result[4]

QuadPoints == {Quad[i] : i \in 1..4}

\* C23 (as amended): the corners are returned in the order top-left,
\* top-right, bottom-right, bottom-left, where top-left is an input point
\* with the least x + y, bottom-right one with the greatest x + y, top-right
\* one with the least y - x (the greatest x - y) and bottom-left one with
\* the greatest y - x (the least x - y).
C23_CornerOrder ==
    op = "order_points" =>
        /\ Len(result) = 4
        /\ \A i \in 1..4 : result[i] \in QuadPoints
        /\ \A p \in QuadPoints :
              /\ TopLeft[1] + TopLeft[2] <= p[1] + p[2]
              /\ BottomRight[1] + BottomRight[2] >= p[1] + p[2]
              /\ TopRight[2] - TopRight[1] <= p[2] - p[1]
              /\ BottomLeft[2] - BottomLeft[1] >= p[2] - p[1]

\* a rectangle given from its bottom-right vertex counter-clockwise, returned
\* clockwise from the top-left
C23_Witness ==
    /\ op = "order_points"
    /\ Quad = <<<<209, 104>>, <<209, 5>>, <<10, 5>>, <<10, 104>>>>
    /\ result = <<<<10, 5>>, <<209, 5>>, <<209, 104>>, <<10, 104>>>>

\* C23 (as claimed): top-right is the point with the least x - y and
\* bottom-left the one with the greatest x - y
C23_Claimed ==
    op = "order_points" =>
        /\ Len(result) = 4
        /\ \A i \in 1..4 : result[i] \in QuadPoints
        /\ \A p \in QuadPoints :
              /\ TopLeft[1] + TopLeft[2] <= p[1] + p[2]
              /\ BottomRight[1] + BottomRight[2] >= p[1] + p[2]
              /\ TopRight[1] - TopRight[2] <= p[1] - p[2]
              /\ BottomLeft[1] - BottomLeft[2] >= p[1] - p[2]

\* the quadrilateral is an axis-aligned rectangle of more than one row and
\* column, its vertices in any order
IsRectangle ==
    /\ QuadWidth > 1 /\ QuadHeight > 1
    /\ QuadPoints = {Rectangle(BoundingRect(Quad)[1], BoundingRect(Quad)[2],
                               QuadWidth, QuadHeight)[i] : i \in 1..4}

\* patch (r, c) of the centres returned, r in 0..3 and c in 0..5; each
\* coordinate is kept over PatchDen
PatchCenter(r, c) == result[r * MACBETH_COLS + c + 1]

\* C24: the centre of patch (r, c) lies at fraction (r + 0.5)/4 between the
\* point at fraction (c + 0.5)/6 of the top edge (top-left to top-right) and
\* the point at that fraction of the bottom edge (bottom-left to
\* bottom-right) of the ordered corners; for an axis-aligned rectangle with
\* corners (x0, y0) and (x1, y1), given in any vertex order, it is
\* (x0 + (c + 0.5)/6 * (x1 - x0), y0 + (r + 0.5)/4 * (y1 - y0)).
C24_PatchCenters ==
    op = "calculate_patch_centers" =>
        /\ Len(result) = MACBETH_ROWS * MACBETH_COLS
        /\ \A r \in 0..(MACBETH_ROWS - 1) : \A c \in 0..(MACBETH_COLS - 1) :
              /\ \A k \in 1..2 :
                    LET o == order_points(Quad)
                        top == 12 * o[1][k] + (2 * c + 1) * (o[2][k] - o[1][k])
                        bottom ==
                            12 * o[4][k] + (2 * c + 1) * (o[3][k] - o[4][k])
                    IN  PatchCenter(r, c)[k]
                            = 8 * top + (2 * r + 1) * (bottom - top)
              /\ IsRectangle =>
                    LET x0 == BoundingRect(Quad)[1]
                        y0 == BoundingRect(Quad)[2]
                        x1 == x0 + QuadWidth - 1
                        y1 == y0 + QuadHeight - 1
                    IN  /\ 12 * PatchCenter(r, c)[1]
                             = PatchDen * (12 * x0 + (2 * c + 1) * (x1 - x0))
                        /\ 8 * PatchCenter(r, c)[2]
                             = PatchDen * (8 * y0 + (2 * r + 1) * (y1 - y0))

\* the centres of a rectangle given from its bottom-left vertex, not from the
\* top-left
C24_Witness ==
    /\ op = "calculate_patch_centers"
    /\ IsRectangle
    /\ Quad[1][1] < Quad[3][1]
    /\ Quad[1][2] > Quad[3][2]
    /\ PatchCenter(0, 0)[1] < PatchCenter(0, 5)[1]
    /\ PatchCenter(0, 0)[2] < PatchCenter(3, 0)[2]

\* C27: whatever four distinct points are given, _order_points returns each
\* of them once.
C27_Permutation ==
    op = "order_points" =>
        /\ Len(result) = 4
        /\ {result[i] : i \in 1..4} = QuadPoints

(***************************************************************************)
(* The arithmetic that can leave the 8-bit range: tint, contrast and the   *)
(* chart transform, each called on its own.                                *)
(***************************************************************************)
ApplyColorTransform ==
    /\ op = "none"
    /\ \E fit \in Fits :
          Call("apply_color_transform", fit, apply_color_transform(source, fit))

ClipNext == AdjustTint \/ AdjustContrast \/ ApplyColorTransform

SpecClip == ToneInit /\ [][ClipNext]_vars

\* clip(x, 0, 255) truncated to an integer, for x = n / d
ClipTrunc(n, d) == Clip(n, 0, MaxVal * d) \div d

\* clip((value - 128) * (1 + v/100) + 128, 0, 255) truncated, the value of
\* the expression taken exactly
ExactContrast(c, v) == ClipTrunc((c - 128) * (100 + v) + 128 * 100, 100)

\* what the claim and its amendment share: tint and the chart transform
ClippedTintAndTransform ==
    /\ op = "adjust_tint" =>
          \A i \in 1..Len(given.px) :
              result.px[i] = <<given.px[i][1],
                               ClipTrunc(2 * given.px[i][2] - args, 2),
                               given.px[i][3]>>
    /\ op = "apply_color_transform" =>
          \A i \in 1..Len(given.px) : \A j \in 1..3 :
              result.px[i][j]
                  = ClipTrunc(given.px[i][1] * args.m[1][j]
                                + given.px[i][2] * args.m[2][j]
                                + given.px[i][3] * args.m[3][j], args.den)

TableOf(c) == lookup_table(Channel(given, c), Channel(reference, c))

\* the source levels at which the table can step: the ends of the range and
\* every level of the two channels with the level before it (src_cdf, and
\* with it the entry, is the same from one level of the source up to the
\* next)
StepLevels(c) ==
    LET used == ChannelValues(given, c) \cup ChannelValues(reference, c)
    IN  {0, MaxVal} \cup used \cup {l - 1 : l \in used \ {0}}

\* C26: for every pair of non-empty source and reference channels the lookup
\* table is monotone non-decreasing in the source level, so of two pixels of
\* a channel the one that was not brighter is not brighter after
\* match_histograms.
C26_MonotoneTable ==
    op = "match_histograms" =>
        \A c \in 1..3 :
            /\ \A i, j \in StepLevels(c) :
                  i <= j => TableOf(c)[i] <= TableOf(c)[j]
            /\ \A p, q \in 1..Len(given.px) :
                  given.px[p][c] <= given.px[q][c]
                      => result.px[p][c] <= result.px[q][c]

\* two pixels of different levels in a channel, remapped to two different
\* levels in the same order
C26_Witness ==
    /\ op = "match_histograms"
    /\ \E c \in 1..3 : \E p, q \in 1..Len(given.px) :
          /\ given.px[p][c] < given.px[q][c]
          /\ result.px[p][c] < result.px[q][c]
          /\ TableOf(c)[0] < TableOf(c)[MaxVal]

(***************************************************************************)
(* The colour arrays of match_with_chart, settled under SpecChart          *)
(***************************************************************************)
\* the chart detect_chart finds in the source and in the reference
SourceChart == detect_chart(given, found.source)

ReferenceChart == detect_chart(reference, found.reference)

\* every patch centre of the chart lies inside the image
CentersInside(image, chart) ==
    \A k \in 1..Len(chart.patches) :
        /\ 0 <= chart.patches[k][1]
        /\ chart.patches[k][1] < Width(image) * PatchDen
        /\ 0 <= chart.patches[k][2]
        /\ chart.patches[k][2] < Height(image) * PatchDen

\* extract_colors sampled every patch of the chart: 24 rows, row k the mean
\* of the window of patch k
AllSampled(image, chart) ==
    LET colors == extract_colors(image, chart, PatchSize)
    IN  /\ colors # None
        /\ Len(colors.colors) = MACBETH_PATCHES
        /\ \A k \in 1..MACBETH_PATCHES :
              LET win == PatchWindow(image, chart.patches[k], PatchSize)
              IN  /\ win[1] < win[3] /\ win[2] < win[4]
                  /\ colors.colors[k]
                       = WindowMean(image, win[1], win[2], win[3], win[4])

\* C28: every patch centre detect_chart computes for an image lies inside
\* that image, so extract_colors on the same image skips no patch: in
\* match_with_chart the two colour arrays handed to the fit have 24 rows
\* each, row k of both the colour of patch k, and the fit never fails on
\* arrays of different lengths.
C28_PairedColors ==
    op = "match_with_chart" =>
        /\ SourceChart # None =>
              CentersInside(given, SourceChart) /\ AllSampled(given, SourceChart)
        /\ ReferenceChart # None =>
              CentersInside(reference, ReferenceChart)
                  /\ AllSampled(reference, ReferenceChart)
        /\ result # Raised

\* a chart found in both images, the source's from a contour that is not the
\* reference's, and the transform applied
C28_Witness ==
    /\ op = "match_with_chart"
    /\ SourceChart # None
    /\ ReferenceChart # None
    /\ SourceChart.corners # ReferenceChart.corners
    /\ IsBuffer(result)

\* a panel's processed image is its original with the sliders applied as
\* they stand
Synced(p) ==
    shell.panel[p].original_image # None =>
        shell.panel[p].processed_image
            = apply_adjustments(shell.panel[p].original_image,
                                shell.panel[p].sliders)

\* a panel's original and processed image are both absent, or both present
\* and as wide and as high as each other
SameExtent(p) ==
    LET original == shell.panel[p].original_image
        processed == shell.panel[p].processed_image
    IN  \/ original = None /\ processed = None
        \/ /\ IsBuffer(original)
           /\ IsBuffer(processed)
           /\ original.h = processed.h
           /\ original.w = processed.w

\* C29: after every shell event (open by button, load by drag and drop,
\* slider change, slider reset, confirmed crop, resize, auto-match), each
\* panel with an image has processed = apply_adjustments(original, current
\* slider values), and original and processed are both absent or both
\* present with the same width and height.
C29_ProcessedFollowsSliders ==
    \A p \in Panels : Synced(p) /\ SameExtent(p)

\* the half of C29 that holds of the code: the extents always agree
C29_ExtentsAgree ==
    \A p \in Panels : SameExtent(p)

\* a picture was dropped on a panel whose sliders are not all 0: it is shown
\* as loaded, not adjusted
C29_DroppedUnadjusted ==
    /\ op = "drop_image"
    /\ LET p == args[1]
       IN  /\ shell.panel[p].sliders # DefaultSliders
           /\ shell.panel[p].processed_image = shell.panel[p].original_image
           /\ ~Synced(p)
           /\ SameExtent(p)

\* the four marks of crop mode agree, and only the target panel shows a
\* crop overlay
CropConsistent ==
    /\ shell.crop_mode_active <=> shell.crop_target_panel \in Panels
    /\ shell.crop_mode_active <=> shell.crop_control_panel
    /\ shell.crop_mode_active <=> ~shell.buttons_enabled
    /\ \A p \in Panels :
          shell.panel[p].crop_mode => shell.crop_target_panel = p
    /\ shell.crop_mode_active =>
          shell.panel[shell.crop_target_panel].crop_mode

\* crop mode inactive, no target, no control panel, no overlay and the
\* buttons enabled
CropEnded ==
    /\ ~shell.crop_mode_active
    /\ shell.crop_target_panel = "None"
    /\ ~shell.crop_control_panel
    /\ shell.buttons_enabled
    /\ \A p \in Panels : ~shell.panel[p].crop_mode

\* C30: in every reachable state crop_mode_active holds exactly when
\* crop_target_panel is "A" or "B", exactly when a crop control panel
\* exists and exactly when the buttons are disabled, and at most one panel
\* has crop_mode set, the target panel; every crop_confirmed signal (a
\* confirm of a selection with w > 0 and h > 0) and every cancel leaves
\* crop mode inactive with no target and the buttons enabled, and a click
\* of the confirm button on an empty selection changes nothing: crop mode
\* stays active.
C30_CropModeConsistent ==
    /\ []CropConsistent
    /\ [][/\ op' \in {"crop_confirmed", "crop_cancelled"} =>
                shell.crop_mode_active /\ CropEnded'
          /\ op' = "crop_confirm_clicked" =>
                /\ shell.crop_mode_active
                /\ shell' = [shell EXCEPT !.events = shell.events + 1]]_vars

\* C30 witness: a crop started on a panel has been confirmed; crop mode is
\* over and the buttons are enabled again
C30_Witness ==
    /\ op = "crop_confirmed"
    /\ DOMAIN result = {args[1]}
    /\ CropEnded
    /\ shell.panel[args[1]].processed_image = result[args[1]]

\* C30 as claimed: every click of the confirm button, and every cancel,
\* ends crop mode
C30_Claimed ==
    /\ []CropConsistent
    /\ [][op' \in {"crop_confirmed", "crop_confirm_clicked", "crop_cancelled"}
              => CropEnded']_vars

\* the confirm button was clicked on an empty selection: crop mode is still
\* active
C30_IgnoredConfirm ==
    /\ op = "crop_confirm_clicked"
    /\ shell.crop_mode_active
    /\ ~shell.buttons_enabled
    /\ shell.panel[args[1]].crop_mode

====
